---- MODULE Spec2Model ----
(***************************************************************************)
(* Model of the log analysis scripts of                                    *)
(* Measuring-Backlash-in-Popular-UART-Servos:                              *)
(*   software/logs_analysis/config_utils.py, log_calc.py (generic engine)  *)
(*   Utilities/log_calc.py (fixed two-motor script)                        *)
(*   Utilities/log_calc_single.py (single-actuator script)                 *)
(*                                                                         *)
(* Sample indices, interval bounds and segment-local indices are the       *)
(* 0-based indices of the Python code; a TLA+ sequence s holds the sample  *)
(* of Python index i at s[i + 1].                                          *)
(***************************************************************************)
EXTENDS Integers, Sequences, FiniteSets, TLC

VARIABLES
    prog,            \* which script runs: "analyze_log" or "two_motor"
    df,              \* the dataset: a sequence of rows [target, pos]
    columns,         \* df.columns: the names of the motor columns of the CSV
    config_json,     \* the parsed JSON of the config file given to load_config
    missing,         \* the columns named by the KeyError of ensure_columns
    has_timestamp,   \* whether the CSV has a parseable "timestamp" column
    config,          \* the AnalysisConfig
    pc,              \* position of the script
    t_sec,           \* the derived df["t_sec"] column
    phase_mask,      \* phase_mask / phase2_mask
    raw_segments,    \* find_segments(phase_mask)
    segments,        \* raw_segments filtered by min_segment_samples
    relaxed_mask,    \* relaxed_mask over the whole log
    stretch_masks,   \* stretch_masks: motor_id -> mask over the whole log
    global_groups,   \* label -> state -> list of slices
    seg_id,          \* seg_id of the next phase segment of the loop
    printed,         \* what was printed per phase segment, in print order
    appended,        \* `subsegments` of the last iteration before its sort
    subsegments,     \* the loop's variable `subsegments` (last assignment)
    totals,          \* "Total averages across all segments" lines
    avg_cache,       \* avg_cache: <<label, state>> -> average or None
    deviations       \* "Position deviation" lines

vars == <<prog, df, columns, config_json, missing, has_timestamp, config, pc,
          t_sec, phase_mask, raw_segments,
          segments, relaxed_mask, stretch_masks, global_groups, seg_id,
          printed, appended, subsegments, totals, avg_cache, deviations>>

----------------------------------------------------------------------------
(* Bounds of the checked inputs *)

MaxLen == 4          \* longest dataset of the generic engine's runs
MaxMinSeg == 2       \* largest min_segment_samples of the checked configs
MaxBlocks == 4       \* most blocks of equal rows in a two-motor script log
MaxWideLen == 3      \* longest dataset of the runs with four motor columns
MaxSchemaLen == 2    \* longest dataset of the runs with missing columns
MaxSingleBlocks == 3 \* most blocks of equal rows in a single-actuator script log

----------------------------------------------------------------------------
(* Small helpers of the model *)

None == -1

Abs(x) == IF x < 0 THEN -x ELSE x

Range(s) == {s[i] : i \in 1..Len(s)}

States == <<"stretched", "relaxed">>

RECURSIVE SumSeq(_)
SumSeq(s) == IF s = <<>> THEN 0 ELSE Head(s) + SumSeq(Tail(s))

----------------------------------------------------------------------------
(* config_utils.py *)

MotorConfig(motor_id, label, relaxed_target, relaxed_tolerance, stretched_target, stretched_tolerance) ==
    [motor_id |-> motor_id, label |-> label,
     relaxed_target |-> relaxed_target, relaxed_tolerance |-> relaxed_tolerance,
     stretched_target |-> stretched_target,
     stretched_tolerance |-> stretched_tolerance]

AnalysisConfig(home_position, home_tolerance, home_motor_ids, require_home_position_match, report_motor_ids, min_segment_samples, actuated_motors) ==
    [home_position |-> home_position, home_tolerance |-> home_tolerance,
     home_motor_ids |-> home_motor_ids,
     require_home_position_match |-> require_home_position_match,
     report_motor_ids |-> report_motor_ids,
     min_segment_samples |-> min_segment_samples,
     actuated_motors |-> actuated_motors]

\* df[target_col(motor_id)] and df[pos_col(motor_id)] at Python index i
target_col(d, motor_id, i) == d[i + 1].target[motor_id]

pos_col(d, motor_id, i) == d[i + 1].pos[motor_id]

\* build_phase_mask with < for <= in the position test
build_phase_mask_strict(d, cfg) ==
    [k \in 1..Len(d) |->
        \A j \in 1..Len(cfg.home_motor_ids) :
            LET motor_id == cfg.home_motor_ids[j] IN
            /\ target_col(d, motor_id, k - 1) = cfg.home_position
            /\ (cfg.require_home_position_match =>
                  Abs(pos_col(d, motor_id, k - 1) - cfg.home_position)
                      < cfg.home_tolerance)]

build_phase_mask(d, cfg) ==
    [k \in 1..Len(d) |->
        \A j \in 1..Len(cfg.home_motor_ids) :
            LET motor_id == cfg.home_motor_ids[j] IN
            /\ target_col(d, motor_id, k - 1) = cfg.home_position
            /\ (cfg.require_home_position_match =>
                  Abs(pos_col(d, motor_id, k - 1) - cfg.home_position)
                      <= cfg.home_tolerance)]

\* build_relaxed_mask joining the motors with | instead of &
build_relaxed_mask_any(d, motors) ==
    [k \in 1..Len(d) |->
        \E j \in 1..Len(motors) :
            LET motor == motors[j] IN
            /\ target_col(d, motor.motor_id, k - 1) = motor.relaxed_target
            /\ Abs(pos_col(d, motor.motor_id, k - 1) - motor.relaxed_target)
                   <= motor.relaxed_tolerance]

build_relaxed_mask(d, motors) ==
    [k \in 1..Len(d) |->
        \A j \in 1..Len(motors) :
            LET motor == motors[j] IN
            /\ target_col(d, motor.motor_id, k - 1) = motor.relaxed_target
            /\ Abs(pos_col(d, motor.motor_id, k - 1) - motor.relaxed_target)
                   <= motor.relaxed_tolerance]

build_stretch_mask(d, motor) ==
    [k \in 1..Len(d) |->
        /\ target_col(d, motor.motor_id, k - 1) = motor.stretched_target
        /\ Abs(pos_col(d, motor.motor_id, k - 1) - motor.stretched_target)
               <= motor.stretched_tolerance]

\* find_segments_scan closing a run at i instead of i - 1
RECURSIVE find_segments_scan_late(_, _, _, _, _)
find_segments_scan_late(arr, i, in_segment, start_idx, segs) ==
    IF i >= Len(arr)
    THEN IF in_segment /\ start_idx # None
         THEN Append(segs, <<start_idx, Len(arr) - 1>>)
         ELSE segs
    ELSE LET active == arr[i + 1] IN
         IF active /\ ~in_segment
         THEN find_segments_scan_late(arr, i + 1, TRUE, i, segs)
         ELSE IF ~active /\ in_segment
         THEN find_segments_scan_late(arr, i + 1, FALSE, start_idx,
                                      Append(segs, <<start_idx, i>>))
         ELSE find_segments_scan_late(arr, i + 1, in_segment, start_idx, segs)

\* the for loop of find_segments from index i on, and the code after it
RECURSIVE find_segments_scan(_, _, _, _, _)
find_segments_scan(arr, i, in_segment, start_idx, segs) ==
    IF i >= Len(arr)
    THEN IF in_segment /\ start_idx # None
         THEN Append(segs, <<start_idx, Len(arr) - 1>>)
         ELSE segs
    ELSE LET active == arr[i + 1] IN
         IF active /\ ~in_segment
         THEN find_segments_scan(arr, i + 1, TRUE, i, segs)
         ELSE IF ~active /\ in_segment
         THEN find_segments_scan(arr, i + 1, FALSE, start_idx,
                                 Append(segs, <<start_idx, i - 1>>))
         ELSE find_segments_scan(arr, i + 1, in_segment, start_idx, segs)

\* find_segments without the code after the loop: a run that is still open
\* at the end of the sequence is never closed
find_segments_unclosed(mask_series) ==
    LET segs == find_segments_scan(mask_series, 0, FALSE, None, <<>>)
    IN IF mask_series # <<>> /\ mask_series[Len(mask_series)]
       THEN SubSeq(segs, 1, Len(segs) - 1)
       ELSE segs

find_segments(mask_series) ==
    find_segments_scan(mask_series, 0, FALSE, None, <<>>)

----------------------------------------------------------------------------
(* config_utils.py: load_config *)

\* the values of the parsed JSON: a key that is not in a dict is "absent";
\* a number is kept as twice its value, so that halves can be written
JsonAbsent == [type |-> "absent"]

JsonNumber(twice) == [type |-> "number", twice |-> twice]

JsonString(text) == [type |-> "string", text |-> text]

JsonBool(b) == [type |-> "bool", b |-> b]

JsonList(items) == [type |-> "list", items |-> items]

\* the outcome of an expression: a value or a raised exception
Returned(v) == [ok |-> TRUE, v |-> v]

Raised(exc) == [ok |-> FALSE, exc |-> exc]

\* the texts int() and float() accept among those of the checked configs
NumericTexts == ("1" :> 1 @@ "4" :> 4)

\* int(x): truncation towards zero of a number, the value of a numeric
\* text, ValueError for another text, TypeError for a list or a dict
py_int(x) ==
    CASE x.type = "number" ->
             Returned(IF x.twice >= 0 THEN x.twice \div 2
                      ELSE -((-x.twice) \div 2))
      [] x.type = "bool" -> Returned(IF x.b THEN 1 ELSE 0)
      [] x.type = "string" ->
             IF x.text \in DOMAIN NumericTexts
             THEN Returned(NumericTexts[x.text])
             ELSE Raised("ValueError")
      [] x.type \in {"list", "object"} -> Raised("TypeError")

\* float(x), for the whole numbers of the checked configs
py_float(x) ==
    CASE x.type = "number" /\ x.twice % 2 = 0 -> Returned(x.twice \div 2)
      [] x.type = "bool" -> Returned(IF x.b THEN 1 ELSE 0)
      [] x.type = "string" ->
             IF x.text \in DOMAIN NumericTexts
             THEN Returned(NumericTexts[x.text])
             ELSE Raised("ValueError")
      [] x.type \in {"list", "object"} -> Raised("TypeError")

\* the truth value of raw.get(key): None for an absent key
truthy(x) ==
    CASE x.type = "absent" -> FALSE
      [] x.type = "number" -> x.twice # 0
      [] x.type = "bool" -> x.b
      [] x.type = "string" -> x.text # ""
      [] x.type = "list" -> x.items # <<>>
      [] x.type = "object" -> TRUE

\* raw.get(key, default)
get(x, default) == IF x.type = "absent" THEN default ELSE x

\* the loop of _extract_motor_ids: the ids in order, each once
RECURSIVE unique_ids(_, _)
unique_ids(ids, result) ==
    IF ids = <<>> THEN result
    ELSE unique_ids(Tail(ids),
                    IF Head(ids) \in Range(result) THEN result
                    ELSE Append(result, Head(ids)))

_extract_motor_ids(value) ==
    IF value.type # "list" \/ ~truthy(value)
    THEN Raised("ValueError")
    ELSE LET ids == [k \in 1..Len(value.items) |-> py_int(value.items[k])]
         IN IF \E k \in 1..Len(ids) : ~ids[k].ok
            THEN Raised("ValueError")
            ELSE Returned(unique_ids([k \in 1..Len(ids) |-> ids[k].v], <<>>))

\* the test of min_segment_samples letting zero pass
check_min_segment_samples_negative(min_segment_samples) ==
    IF min_segment_samples < 0
    THEN Raised("ValueError")
    ELSE Returned(min_segment_samples)

\* `if min_segment_samples <= 0: raise ValueError`
check_min_segment_samples(min_segment_samples) ==
    IF min_segment_samples <= 0
    THEN Raised("ValueError")
    ELSE Returned(min_segment_samples)

\* f"M{motor_id}"
default_label(motor_id) == "M" \o ToString(motor_id)

\* the body of the loop over motors_raw for one entry: a KeyError, TypeError
\* or ValueError of the five conversions is raised again as ValueError
motor_entry(entry) ==
    IF entry.type # "object"
    THEN Raised("ValueError")
    ELSE LET fields == <<entry.relaxed_target, entry.relaxed_tolerance,
                         entry.stretched_target, entry.stretched_tolerance>>
         IN IF \/ entry.motor_id.type = "absent"
               \/ ~py_int(entry.motor_id).ok
               \/ \E k \in 1..Len(fields) :
                     fields[k].type = "absent" \/ ~py_float(fields[k]).ok
            THEN Raised("ValueError")
            ELSE LET motor_id == py_int(entry.motor_id).v
                 IN Returned(MotorConfig(
                        motor_id,
                        IF truthy(entry.label) THEN entry.label.text
                        ELSE default_label(motor_id),
                        py_float(fields[1]).v, py_float(fields[2]).v,
                        py_float(fields[3]).v, py_float(fields[4]).v))

\* load_config from the parsed JSON on: the AnalysisConfig or the first
\* exception raised
load_config(raw) ==
    LET home_position ==
            IF raw.home_position.type = "absent" THEN Raised("ValueError")
            ELSE py_float(raw.home_position)
        home_motor_ids == _extract_motor_ids(raw.home_motor_ids)
        home_tolerance == py_float(get(raw.home_tolerance, JsonNumber(0)))
        require_home_position_match ==
            truthy(get(raw.require_home_position_match, JsonBool(FALSE)))
        report_motor_ids ==
            IF truthy(raw.report_motor_ids)
            THEN _extract_motor_ids(raw.report_motor_ids)
            ELSE home_motor_ids
        min_int == py_int(get(raw.min_segment_samples, JsonNumber(2)))
        min_segment_samples ==
            IF min_int.ok THEN check_min_segment_samples(min_int.v) ELSE min_int
        motors_raw == raw.actuated_motors
        entries == [k \in 1..Len(motors_raw.items) |->
                       motor_entry(motors_raw.items[k])]
    IN IF ~home_position.ok THEN home_position
       ELSE IF ~home_motor_ids.ok THEN home_motor_ids
       ELSE IF ~home_tolerance.ok THEN home_tolerance
       ELSE IF ~report_motor_ids.ok THEN report_motor_ids
       ELSE IF ~min_segment_samples.ok THEN min_segment_samples
       ELSE IF motors_raw.type # "list" \/ ~truthy(motors_raw)
            THEN Raised("ValueError")
       ELSE IF \E k \in 1..Len(entries) : ~entries[k].ok
            THEN Raised("ValueError")
       ELSE IF report_motor_ids.v = <<>> THEN Raised("ValueError")
       ELSE Returned(AnalysisConfig(
                home_position.v, home_tolerance.v, home_motor_ids.v,
                require_home_position_match, report_motor_ids.v,
                min_segment_samples.v,
                [k \in 1..Len(entries) |-> entries[k].v]))

\* main, lines 171-175: load_config, and "Error loading config" with exit
\* status 1 for an OSError or ValueError; another exception is not caught
LoadConfig ==
    /\ prog = "analyze_log" /\ pc = "load_config"
    /\ LET loaded == load_config(config_json)
       IN IF loaded.ok
          THEN /\ config' = loaded.v
               /\ pc' = "read_csv"
          ELSE /\ config' = config
               /\ pc' = IF loaded.exc = "ValueError"
                        THEN "config_error" ELSE "uncaught"
    /\ UNCHANGED <<prog, df, columns, config_json, missing, has_timestamp,
                   t_sec, phase_mask, raw_segments, segments, relaxed_mask,
                   stretch_masks, global_groups, seg_id, printed, appended,
                   subsegments, totals, avg_cache, deviations>>

\* an entry of "actuated_motors"
JsonMotor(motor_id, label, relaxed_target, stretched_target, stretched_tolerance) ==
    [type |-> "object", motor_id |-> motor_id, label |-> label,
     relaxed_target |-> relaxed_target, relaxed_tolerance |-> JsonNumber(2),
     stretched_target |-> stretched_target,
     stretched_tolerance |-> stretched_tolerance]

\* the checked config files: every field absent, well formed, and malformed
\* in the ways load_config tests for
RawConfigs ==
    [home_position : {JsonAbsent, JsonNumber(40), JsonString("x")},
     home_motor_ids :
        {JsonAbsent, JsonList(<<>>), JsonNumber(2),
         JsonList(<<JsonNumber(2)>>),
         JsonList(<<JsonNumber(2), JsonString("1"), JsonNumber(5)>>),
         JsonList(<<JsonString("x")>>)},
     home_tolerance : {JsonAbsent, JsonNumber(2)},
     require_home_position_match : {JsonAbsent, JsonBool(TRUE)},
     report_motor_ids :
        {JsonAbsent, JsonList(<<>>), JsonNumber(0), JsonNumber(8),
         JsonList(<<JsonNumber(8), JsonString("4")>>)},
     min_segment_samples :
        {JsonAbsent, JsonNumber(0), JsonNumber(-2), JsonNumber(1),
         JsonNumber(3), JsonNumber(4), JsonString("x")},
     actuated_motors :
        {JsonAbsent, JsonList(<<>>), JsonNumber(6),
         JsonList(<<JsonString("x")>>),
         JsonList(<<JsonMotor(JsonNumber(6), JsonString("A"), JsonNumber(20),
                              JsonNumber(60), JsonNumber(4))>>),
         JsonList(<<JsonMotor(JsonNumber(6), JsonAbsent, JsonNumber(20),
                              JsonNumber(60), JsonNumber(4)),
                    JsonMotor(JsonString("4"), JsonString(""), JsonNumber(80),
                              JsonString("1"), JsonNumber(4))>>),
         JsonList(<<JsonMotor(JsonNumber(6), JsonAbsent, JsonNumber(20),
                              JsonNumber(60), JsonAbsent)>>),
         JsonList(<<JsonMotor(JsonNumber(6), JsonAbsent, JsonString("x"),
                              JsonNumber(60), JsonNumber(4))>>)}]

InitConfig ==
    /\ prog = "analyze_log"
    /\ pc = "load_config"
    /\ config_json \in RawConfigs
    /\ config = <<>>
    /\ df = <<>>
    /\ columns = {}
    /\ has_timestamp = FALSE
    /\ missing = <<>>
    /\ t_sec = <<>>
    /\ phase_mask = <<>>
    /\ raw_segments = <<>>
    /\ segments = <<>>
    /\ relaxed_mask = <<>>
    /\ stretch_masks = <<>>
    /\ global_groups = <<>>
    /\ seg_id = 0
    /\ printed = <<>>
    /\ appended = <<>>
    /\ subsegments = <<>>
    /\ totals = <<>>
    /\ avg_cache = <<>>
    /\ deviations = <<>>

NextConfig == LoadConfig

SpecConfig == InitConfig /\ [][NextConfig]_vars

----------------------------------------------------------------------------
(* software/logs_analysis/log_calc.py *)

\* one (label, seg_slice) item of `subsegments`; the slice df.iloc[a:b + 1]
\* is kept as its index range and the label as its two parts
SubSegment(label, state, start_idx, end_idx) ==
    [label |-> label, state |-> state,
     start_idx |-> start_idx, end_idx |-> end_idx]

\* the rows of pd.concat(slices), slices being index ranges of d
RECURSIVE pd_concat(_, _)
pd_concat(d, slices) ==
    IF slices = <<>> THEN <<>>
    ELSE SubSeq(d, Head(slices)[1] + 1, Head(slices)[2] + 1)
            \o pd_concat(d, Tail(slices))

\* Series.mean() of the pos column of motor_id, as the fraction sum / n
mean(rows, motor_id) ==
    [sum |-> SumSeq([k \in 1..Len(rows) |-> rows[k].pos[motor_id]]),
     n |-> Len(rows)]

NoAverage == [has |-> FALSE, avg |-> <<>>]

\* average_positions without the test of the empty list
average_positions_unguarded(d, slices, report_motor_ids) ==
    [has |-> TRUE,
     avg |-> [motor_id \in Range(report_motor_ids) |->
                 mean(pd_concat(d, slices), motor_id)]]

average_positions(d, slices, report_motor_ids) ==
    IF slices = <<>>
    THEN NoAverage
    ELSE [has |-> TRUE,
          avg |-> [motor_id \in Range(report_motor_ids) |->
                      mean(pd_concat(d, slices), motor_id)]]

\* relaxed_loop without the test rs > le: the first relaxed interval
RECURSIVE relaxed_loop_any(_, _, _, _, _)
relaxed_loop_any(label, start_idx, le, relaxed_segments, j) ==
    IF j > Len(relaxed_segments) THEN <<>>
    ELSE <<SubSegment(label, "relaxed", start_idx + relaxed_segments[j][1],
                      start_idx + relaxed_segments[j][2])>>

\* relaxed_loop without the break: every relaxed interval after le
RECURSIVE relaxed_loop_nobreak(_, _, _, _, _)
relaxed_loop_nobreak(label, start_idx, le, relaxed_segments, j) ==
    IF j > Len(relaxed_segments) THEN <<>>
    ELSE LET rs == relaxed_segments[j][1]
             re == relaxed_segments[j][2]
             rest == relaxed_loop_nobreak(label, start_idx, le,
                                          relaxed_segments, j + 1)
         IN IF rs > le
            THEN <<SubSegment(label, "relaxed", start_idx + rs, start_idx + re)>>
                    \o rest
            ELSE rest

\* the inner loop over relaxed_segments from position j on: the first
\* relaxed interval that starts after le, then break
RECURSIVE relaxed_loop(_, _, _, _, _)
relaxed_loop(label, start_idx, le, relaxed_segments, j) ==
    IF j > Len(relaxed_segments) THEN <<>>
    ELSE LET rs == relaxed_segments[j][1]
             re == relaxed_segments[j][2]
         IN IF rs > le
            THEN <<SubSegment(label, "relaxed", start_idx + rs, start_idx + re)>>
            ELSE relaxed_loop(label, start_idx, le, relaxed_segments, j + 1)

\* stretch_loop without the append of the stretched slice
RECURSIVE stretch_loop_relaxed_only(_, _, _, _, _)
stretch_loop_relaxed_only(label, start_idx, stretch_segments, relaxed_segments, k) ==
    IF k > Len(stretch_segments) THEN <<>>
    ELSE LET le == stretch_segments[k][2]
         IN relaxed_loop(label, start_idx, le, relaxed_segments, 1)
              \o stretch_loop_relaxed_only(label, start_idx, stretch_segments,
                                           relaxed_segments, k + 1)

\* the loop over one motor's stretch_segments from position k on; the result
\* is what the loop appends to `subsegments`, in append order
RECURSIVE stretch_loop(_, _, _, _, _)
stretch_loop(label, start_idx, stretch_segments, relaxed_segments, k) ==
    IF k > Len(stretch_segments) THEN <<>>
    ELSE LET ls == stretch_segments[k][1]
             le == stretch_segments[k][2]
         IN <<SubSegment(label, "stretched", start_idx + ls, start_idx + le)>>
              \o relaxed_loop(label, start_idx, le, relaxed_segments, 1)
              \o stretch_loop(label, start_idx, stretch_segments,
                              relaxed_segments, k + 1)

\* motor_loop with the stretch mask cut at the segment start only
RECURSIVE motor_loop_unclipped(_, _, _, _, _, _)
motor_loop_unclipped(motors, masks, start_idx, end_idx, relaxed_segments, m) ==
    IF m > Len(motors) THEN <<>>
    ELSE LET motor == motors[m]
             stretch_local == SubSeq(masks[motor.motor_id], start_idx + 1,
                                     Len(masks[motor.motor_id]))
             stretch_segments == find_segments(stretch_local)
         IN stretch_loop(motor.label, start_idx, stretch_segments,
                         relaxed_segments, 1)
              \o motor_loop_unclipped(motors, masks, start_idx, end_idx,
                                      relaxed_segments, m + 1)

\* the loop over config.actuated_motors from position m on
RECURSIVE motor_loop(_, _, _, _, _, _)
motor_loop(motors, masks, start_idx, end_idx, relaxed_segments, m) ==
    IF m > Len(motors) THEN <<>>
    ELSE LET motor == motors[m]
             stretch_local == SubSeq(masks[motor.motor_id],
                                     start_idx + 1, end_idx + 1)
             stretch_segments == find_segments(stretch_local)
         IN stretch_loop(motor.label, start_idx, stretch_segments,
                         relaxed_segments, 1)
              \o motor_loop(motors, masks, start_idx, end_idx,
                            relaxed_segments, m + 1)

\* list.sort(key = t_sec of the slice's first row): a stable sort
sort_key(ts, item) == ts[item.start_idx + 1]

RECURSIVE insert_sorted(_, _, _)
insert_sorted(ts, sorted, item) ==
    IF sorted = <<>> THEN <<item>>
    ELSE IF sort_key(ts, Head(sorted)) <= sort_key(ts, item)
         THEN <<Head(sorted)>> \o insert_sorted(ts, Tail(sorted), item)
         ELSE <<item>> \o sorted

\* sort_subsegments left out: the append order
sort_subsegments_none(ts, items) == items

RECURSIVE sort_subsegments(_, _)
sort_subsegments(ts, items) ==
    IF items = <<>> THEN <<>>
    ELSE insert_sorted(ts, sort_subsegments(ts, SubSeq(items, 1, Len(items) - 1)),
                       items[Len(items)])

\* the slices a list of emitted sub-segments adds to one global group
slices_of(items, label, state) ==
    LET sel == SelectSeq(items, LAMBDA it : it.label = label /\ it.state = state)
    IN [k \in 1..Len(sel) |-> <<sel[k].start_idx, sel[k].end_idx>>]

\* append_groups starting from empty lists in every iteration
append_groups_reset(groups, items) ==
    [label \in DOMAIN groups |->
        [state \in Range(States) |-> slices_of(items, label, state)]]

\* global_groups[label][state].append(slice) for every item, in append order
append_groups(groups, items) ==
    [label \in DOMAIN groups |->
        [state \in Range(States) |->
            groups[label][state] \o slices_of(items, label, state)]]

\* filter_segments with > for >=
filter_segments_strict(raw, min_segment_samples) ==
    SelectSeq(raw, LAMBDA s : (s[2] - s[1] + 1) > min_segment_samples)

\* filter_segments with the comparison inverted
filter_segments_inverted(raw, min_segment_samples) ==
    SelectSeq(raw, LAMBDA s : (s[2] - s[1] + 1) <= min_segment_samples)

\* raw_segments filtered by the minimum length
filter_segments(raw, min_segment_samples) ==
    SelectSeq(raw, LAMBDA s : (s[2] - s[1] + 1) >= min_segment_samples)

\* the names of the columns: f"target pos ({motor_id})", f"pos ({motor_id})"
target_name(motor_id) == <<"target pos", motor_id>>

pos_name(motor_id) == <<"pos", motor_id>>

\* the set required_columns of analyze_log
required_columns(cfg) ==
    UNION { {target_name(motor_id), pos_name(motor_id)} :
               motor_id \in Range(cfg.home_motor_ids) }
    \cup UNION { {target_name(cfg.actuated_motors[j].motor_id),
                  pos_name(cfg.actuated_motors[j].motor_id)} :
                    j \in 1..Len(cfg.actuated_motors) }
    \cup { pos_name(motor_id) : motor_id \in Range(cfg.report_motor_ids) }

\* the order of Python strings on column names with one-digit motor ids:
\* "pos (..." sorts before "target pos (..."
col_before(a, b) ==
    \/ a[1] = "pos" /\ b[1] = "target pos"
    \/ a[1] = b[1] /\ a[2] < b[2]

\* sorted(required_columns)
RECURSIVE sorted_columns(_)
sorted_columns(cols) ==
    IF cols = {} THEN <<>>
    ELSE LET first == CHOOSE c \in cols :
                          \A other \in cols \ {c} : col_before(c, other)
         IN <<first>> \o sorted_columns(cols \ {first})

\* ensure_columns stopping at the first missing column
ensure_columns_first(present, required) ==
    LET absent == SelectSeq(required, LAMBDA col : col \notin present)
    IN IF absent = <<>> THEN <<>> ELSE <<absent[1]>>

\* ensure_columns: the list `missing`; the KeyError is raised iff it is
\* not empty and its message joins the whole list
ensure_columns(present, required) ==
    SelectSeq(required, LAMBDA col : col \notin present)

\* `if not segments: print("No phase-2 segments detected ..."); return`
no_segments_return(segs) ==
    IF segs = <<>> THEN "no_segments" ELSE "masks"

\* the derived df["t_sec"] column
Timestamp(i) == i \div 2

elapsed_seconds(d, with_timestamp) ==
    IF with_timestamp
    THEN [k \in 1..Len(d) |-> Timestamp(k - 1) - Timestamp(0)]
    ELSE [k \in 1..Len(d) |-> k - 1]

\* the dict comprehension {motor.motor_id: build_stretch_mask(df, motor)}:
\* a later entry with the same motor_id replaces an earlier one
build_stretch_masks(d, motors) ==
    [motor_id \in {motors[j].motor_id : j \in 1..Len(motors)} |->
        LET last == CHOOSE j \in 1..Len(motors) :
                        /\ motors[j].motor_id = motor_id
                        /\ \A k \in (j + 1)..Len(motors) :
                               motors[k].motor_id # motor_id
        IN build_stretch_mask(d, motors[last])]

\* {motor.label: {"stretched": [], "relaxed": []}}
empty_groups(labels) ==
    [label \in labels |-> [state \in Range(States) |-> <<>>]]

\* match_subsegments with the relaxed mask cut at the segment start only
match_subsegments_open_end(cfg, rmask, smasks, start_idx, end_idx) ==
    LET relaxed_local == SubSeq(rmask, start_idx + 1, Len(rmask))
        relaxed_segments == find_segments(relaxed_local)
    IN motor_loop(cfg.actuated_motors, smasks, start_idx, end_idx,
                  relaxed_segments, 1)

\* match_subsegments that also reports the relaxed intervals on their own,
\* under the label of the first motor
match_subsegments_all_relaxed(cfg, rmask, smasks, start_idx, end_idx) ==
    LET relaxed_local == SubSeq(rmask, start_idx + 1, end_idx + 1)
        relaxed_segments == find_segments(relaxed_local)
    IN motor_loop(cfg.actuated_motors, smasks, start_idx, end_idx,
                  relaxed_segments, 1)
         \o [k \in 1..Len(relaxed_segments) |->
                SubSegment(cfg.actuated_motors[1].label, "relaxed",
                           start_idx + relaxed_segments[k][1],
                           start_idx + relaxed_segments[k][2])]

\* the body of the loop over the phase segments, for one segment: the
\* sub-segments in append order
match_subsegments(cfg, rmask, smasks, start_idx, end_idx) ==
    LET relaxed_local == SubSeq(rmask, start_idx + 1, end_idx + 1)
        relaxed_segments == find_segments(relaxed_local)
    IN motor_loop(cfg.actuated_motors, smasks, start_idx, end_idx,
                  relaxed_segments, 1)

\* zip(motors, motors[1:]) for combinations(motors, 2): neighbours only
combinations_adjacent(motors, i, j) ==
    [k \in 1..(Len(motors) - 1) |-> <<motors[k], motors[k + 1]>>]

\* itertools.combinations(motors, 2) from the pair (i, j) on
RECURSIVE combinations(_, _, _)
combinations(motors, i, j) ==
    IF i >= Len(motors) THEN <<>>
    ELSE IF j > Len(motors) THEN combinations(motors, i + 1, i + 2)
    ELSE <<<<motors[i], motors[j]>>>> \o combinations(motors, i, j + 1)

\* abs(avg1[mid] - avg2[mid]) of two means kept as fractions
abs_diff(a, b) ==
    [num |-> Abs(a.sum * b.n - b.sum * a.n), den |-> a.n * b.n]

\* `not avg` of an Optional[Dict]: None or the empty dict
falsy(avg_map) == ~avg_map.has \/ DOMAIN avg_map.avg = {}

deviation_line(cache, report_motor_ids, state, m1, m2) ==
    LET avg1 == cache[<<m1.label, state>>]
        avg2 == cache[<<m2.label, state>>]
    IN IF falsy(avg1) \/ falsy(avg2)
       THEN [state |-> state, m1 |-> m1.label, m2 |-> m2.label,
             text |-> "insufficient data", dev |-> <<>>]
       ELSE [state |-> state, m1 |-> m1.label, m2 |-> m2.label,
             text |-> "dev",
             dev |-> [mid \in Range(report_motor_ids) |->
                         abs_diff(avg1.avg[mid], avg2.avg[mid])]]

total_line(d, cfg, groups, motor, state) ==
    [label |-> motor.label, state |-> state,
     avg_map |-> average_positions(d, groups[motor.label][state],
                                   cfg.report_motor_ids)]

----------------------------------------------------------------------------
(* analyze_log, step by step *)

\* lines 51-71: the column check and the t_sec column
PrepareColumns ==
    /\ prog = "analyze_log" /\ pc = "start"
    /\ missing' = ensure_columns(columns,
                                 sorted_columns(required_columns(config)))
    /\ IF missing' # <<>>
       THEN /\ pc' = "key_error"
            /\ t_sec' = t_sec
       ELSE IF has_timestamp /\ Len(df) = 0
            THEN /\ pc' = "index_error"
                 /\ t_sec' = t_sec
            ELSE /\ pc' = "segment"
                 /\ t_sec' = elapsed_seconds(df, has_timestamp)
    /\ UNCHANGED <<prog, df, columns, config_json, has_timestamp, config, phase_mask,
                   raw_segments, segments, relaxed_mask, stretch_masks,
                   global_groups, seg_id, printed, appended,
                   subsegments, totals, avg_cache, deviations>>

\* lines 73-83: the phase segments, and the early return without segments
DetectSegments ==
    /\ prog = "analyze_log" /\ pc = "segment"
    /\ phase_mask' = build_phase_mask(df, config)
    /\ raw_segments' = find_segments(phase_mask')
    /\ segments' = filter_segments(raw_segments', config.min_segment_samples)
    /\ pc' = no_segments_return(segments')
    /\ UNCHANGED <<prog, df, columns, config_json, missing, has_timestamp,
                   config, t_sec, relaxed_mask,
                   stretch_masks, global_groups, seg_id, printed, appended,
                   subsegments, totals, avg_cache, deviations>>

\* lines 85-89
BuildMasks ==
    /\ prog = "analyze_log" /\ pc = "masks"
    /\ relaxed_mask' = build_relaxed_mask(df, config.actuated_motors)
    /\ stretch_masks' = build_stretch_masks(df, config.actuated_motors)
    /\ global_groups' =
           empty_groups({config.actuated_motors[j].label :
                            j \in 1..Len(config.actuated_motors)})
    /\ seg_id' = 1
    /\ pc' = "loop"
    /\ UNCHANGED <<prog, df, columns, config_json, missing, has_timestamp,
                   config, t_sec, phase_mask,
                   raw_segments, segments, printed, appended,
                   subsegments, totals,
                   avg_cache, deviations>>

\* lines 92-126: one iteration of the loop over the phase segments
ProcessSegment ==
    /\ prog = "analyze_log" /\ pc = "loop"
    /\ seg_id <= Len(segments)
    /\ LET start_idx == segments[seg_id][1]
           end_idx == segments[seg_id][2]
           emitted == match_subsegments(config, relaxed_mask, stretch_masks,
                                        start_idx, end_idx)
       IN /\ appended' = emitted
          /\ subsegments' = sort_subsegments(t_sec, emitted)
          /\ global_groups' = append_groups(global_groups, emitted)
          /\ printed' = Append(printed,
                 [seg_id |-> seg_id, start_idx |-> start_idx,
                  end_idx |-> end_idx, subsegments |-> subsegments'])
    /\ seg_id' = seg_id + 1
    /\ UNCHANGED <<prog, df, columns, config_json, missing, has_timestamp,
                   config, pc, t_sec, phase_mask,
                   raw_segments, segments, relaxed_mask, stretch_masks, totals,
                   avg_cache, deviations>>

\* lines 128-140
TotalAverages ==
    /\ prog = "analyze_log" /\ pc = "loop"
    /\ seg_id > Len(segments)
    /\ totals' =
           [n \in 1..(2 * Len(config.actuated_motors)) |->
               total_line(df, config, global_groups,
                          config.actuated_motors[(n + 1) \div 2],
                          States[((n - 1) % 2) + 1])]
    /\ avg_cache' =
           [key \in {<<totals'[n].label, totals'[n].state>> :
                        n \in 1..Len(totals')} |->
               LET last == CHOOSE n \in 1..Len(totals') :
                       /\ <<totals'[n].label, totals'[n].state>> = key
                       /\ \A k \in (n + 1)..Len(totals') :
                              <<totals'[k].label, totals'[k].state>> # key
               IN totals'[last].avg_map]
    /\ pc' = "deviation"
    /\ UNCHANGED <<prog, df, columns, config_json, missing, has_timestamp,
                   config, t_sec, phase_mask,
                   raw_segments, segments, relaxed_mask, stretch_masks,
                   global_groups, seg_id, printed, appended,
                   subsegments, deviations>>

\* lines 142-161
PositionDeviation ==
    /\ prog = "analyze_log" /\ pc = "deviation"
    /\ LET motor_pairs == combinations(config.actuated_motors, 1, 2)
           np == Len(motor_pairs)
       IN deviations' =
              IF motor_pairs = <<>>
              THEN <<[state |-> "", m1 |-> "", m2 |-> "",
                      text |-> "Requires at least two actuated motors.",
                      dev |-> <<>>]>>
              ELSE [n \in 1..(2 * np) |->
                       LET state == States[((n - 1) \div np) + 1]
                           pair == motor_pairs[((n - 1) % np) + 1]
                       IN deviation_line(avg_cache, config.report_motor_ids,
                                         state, pair[1], pair[2])]
    /\ pc' = "done"
    /\ UNCHANGED <<prog, df, columns, config_json, missing, has_timestamp,
                   config, t_sec, phase_mask,
                   raw_segments, segments, relaxed_mask, stretch_masks,
                   global_groups, seg_id, printed, appended,
                   subsegments, totals,
                   avg_cache>>

----------------------------------------------------------------------------
(* The checked inputs of analyze_log *)

\* a row of a log with the columns of motors 1 (home), 3 and 4 (actuated)
Row(t1, p1, t3, p3, t4, p4) ==
    [target |-> (1 :> t1 @@ 3 :> t3 @@ 4 :> t4),
     pos |-> (1 :> p1 @@ 3 :> p3 @@ 4 :> p4)]

MotorM3 == MotorConfig(3, "M3", 10, 1, 30, 2)
MotorM4 == MotorConfig(4, "M4", 40, 1, 50, 2)

\* rows for home position 20 and the two motors above:
\*   away from home with M3 stretched / idle at home / all relaxed /
\*   M3 stretched / M4 stretched / both stretched
\* (positions on and inside the tolerance bounds)
RowKinds ==
    { Row(0, 20, 30, 32, 40, 40),
      Row(20, 20, 15, 15, 45, 45),
      Row(20, 21, 10, 11, 40, 39),
      Row(20, 23, 30, 28, 40, 40),
      Row(20, 17, 10, 10, 50, 52),
      Row(20, 26, 30, 30, 50, 50) }

Datasets == UNION {[1..n -> RowKinds] : n \in 0..MaxLen}

\* the columns of the rows above
ColumnsOf(motor_ids) ==
    UNION { {target_name(motor_id), pos_name(motor_id)} :
               motor_id \in motor_ids }

Configs ==
    { AnalysisConfig(20, 1, <<1>>, FALSE, <<1>>, k, motors) :
         k \in 1..MaxMinSeg, motors \in {<<MotorM3>>, <<MotorM3, MotorM4>>} }

InitRest ==
    /\ pc = "start"
    /\ config_json = <<>>
    /\ missing = <<>>
    /\ t_sec = <<>>
    /\ phase_mask = <<>>
    /\ raw_segments = <<>>
    /\ segments = <<>>
    /\ relaxed_mask = <<>>
    /\ stretch_masks = <<>>
    /\ global_groups = <<>>
    /\ seg_id = 0
    /\ printed = <<>>
    /\ appended = <<>>
    /\ subsegments = <<>>
    /\ totals = <<>>
    /\ avg_cache = <<>>
    /\ deviations = <<>>

Init ==
    /\ prog = "analyze_log"
    /\ df \in Datasets
    /\ columns = ColumnsOf({1, 3, 4})
    /\ has_timestamp \in BOOLEAN
    /\ config \in Configs
    /\ InitRest

Next ==
    \/ PrepareColumns
    \/ DetectSegments
    \/ BuildMasks
    \/ ProcessSegment
    \/ TotalAverages
    \/ PositionDeviation

Spec == Init /\ [][Next]_vars

----------------------------------------------------------------------------
(* Utilities/log_calc.py: the fixed two-motor script *)

HOME == 2047
M3_RELAXED == 1747
M4_RELAXED == 2347
M3_STRETCHED == 2247
M4_STRETCHED == 1847
POS_TOL_RELAXED == 4
POS_TOL_STRETCHED == 100
MIN_SEGMENT_SAMPLES == 10

\* target_home_12; `& pos_home_12` is commented out in the script
phase2_mask(d) ==
    [k \in 1..Len(d) |->
        /\ d[k].target[1] = HOME
        /\ d[k].target[2] = HOME]

\* relaxed_targets & relaxed_pos_ok
two_motor_relaxed_mask(d) ==
    [k \in 1..Len(d) |->
        /\ d[k].target[3] = M3_RELAXED
        /\ d[k].target[4] = M4_RELAXED
        /\ Abs(d[k].pos[3] - M3_RELAXED) <= POS_TOL_RELAXED
        /\ Abs(d[k].pos[4] - M4_RELAXED) <= POS_TOL_RELAXED]

m3_stretch_mask(d) ==
    [k \in 1..Len(d) |->
        /\ d[k].target[3] = M3_STRETCHED
        /\ Abs(d[k].pos[3] - M3_STRETCHED) <= POS_TOL_STRETCHED]

m4_stretch_mask(d) ==
    [k \in 1..Len(d) |->
        /\ d[k].target[4] = M4_STRETCHED
        /\ Abs(d[k].pos[4] - M4_STRETCHED) <= POS_TOL_STRETCHED]

\* the filter loop and sorted(segments, key = start)
two_motor_segments(raw) ==
    SelectSeq(raw, LAMBDA s : (s[2] - s[1] + 1) >= MIN_SEGMENT_SAMPLES)

\* the two loops over m3_stretch_segments and m4_stretch_segments of one
\* phase segment: the sub-segments in append order
two_motor_subsegments(rmask, smasks, start_idx, end_idx) ==
    LET m3_stretch_local == SubSeq(smasks[3], start_idx + 1, end_idx + 1)
        m4_stretch_local == SubSeq(smasks[4], start_idx + 1, end_idx + 1)
        relaxed_local == SubSeq(rmask, start_idx + 1, end_idx + 1)
        m3_stretch_segments == find_segments(m3_stretch_local)
        m4_stretch_segments == find_segments(m4_stretch_local)
        relaxed_segments == find_segments(relaxed_local)
    IN stretch_loop("M3", start_idx, m3_stretch_segments, relaxed_segments, 1)
         \o stretch_loop("M4", start_idx, m4_stretch_segments,
                         relaxed_segments, 1)

\* avg_group: the M1 and M2 means of a group, or "no samples"
avg_group(d, group) ==
    IF group = <<>>
    THEN NoAverage
    ELSE [has |-> TRUE,
          avg |-> (1 :> mean(pd_concat(d, group), 1)
                   @@ 2 :> mean(pd_concat(d, group), 2))]

\* deviation: the M1 and M2 deviations of two groups, or "insufficient data"
deviation(d, state, g1, g2) ==
    IF g1 = <<>> \/ g2 = <<>>
    THEN [state |-> state, m1 |-> "M3", m2 |-> "M4",
          text |-> "insufficient data", dev |-> <<>>]
    ELSE [state |-> state, m1 |-> "M3", m2 |-> "M4", text |-> "dev",
          dev |-> (1 :> abs_diff(mean(pd_concat(d, g1), 1),
                                 mean(pd_concat(d, g2), 1))
                   @@ 2 :> abs_diff(mean(pd_concat(d, g1), 2),
                                    mean(pd_concat(d, g2), 2)))]

\* lines 73-83
TwoMotorPrepare ==
    /\ prog = "two_motor" /\ pc = "start"
    /\ IF has_timestamp /\ Len(df) = 0
       THEN /\ pc' = "index_error"
            /\ t_sec' = t_sec
       ELSE /\ pc' = "segment"
            /\ t_sec' = elapsed_seconds(df, has_timestamp)
    /\ UNCHANGED <<prog, df, columns, config_json, missing, has_timestamp,
                   config, phase_mask, raw_segments,
                   segments, relaxed_mask, stretch_masks, global_groups, seg_id,
                   printed, appended, subsegments, totals, avg_cache,
                   deviations>>

\* lines 89-121
TwoMotorSegments ==
    /\ prog = "two_motor" /\ pc = "segment"
    /\ phase_mask' = phase2_mask(df)
    /\ raw_segments' = find_segments(phase_mask')
    /\ segments' = two_motor_segments(raw_segments')
    /\ pc' = IF segments' = <<>> THEN "no_segments" ELSE "masks"
    /\ UNCHANGED <<prog, df, columns, config_json, missing, has_timestamp,
                   config, t_sec, relaxed_mask,
                   stretch_masks, global_groups, seg_id, printed, appended,
                   subsegments, totals, avg_cache, deviations>>

\* lines 126-153
TwoMotorMasks ==
    /\ prog = "two_motor" /\ pc = "masks"
    /\ relaxed_mask' = two_motor_relaxed_mask(df)
    /\ stretch_masks' = (3 :> m3_stretch_mask(df) @@ 4 :> m4_stretch_mask(df))
    /\ seg_id' = 1
    /\ pc' = "loop"
    /\ UNCHANGED <<prog, df, columns, config_json, missing, has_timestamp,
                   config, t_sec, phase_mask,
                   raw_segments, segments, global_groups, printed, appended,
                   subsegments, totals, avg_cache, deviations>>

\* lines 172-224: one iteration of the loop over the phase segments
TwoMotorProcessSegment ==
    /\ prog = "two_motor" /\ pc = "loop"
    /\ seg_id <= Len(segments)
    /\ LET start_idx == segments[seg_id][1]
           end_idx == segments[seg_id][2]
           emitted == two_motor_subsegments(relaxed_mask, stretch_masks,
                                            start_idx, end_idx)
       IN /\ appended' = emitted
          /\ subsegments' = sort_subsegments(t_sec, emitted)
          /\ printed' = Append(printed,
                 [seg_id |-> seg_id, start_idx |-> start_idx,
                  end_idx |-> end_idx, subsegments |-> subsegments'])
    /\ seg_id' = seg_id + 1
    /\ UNCHANGED <<prog, df, columns, config_json, missing, has_timestamp,
                   config, pc, t_sec, phase_mask,
                   raw_segments, segments, relaxed_mask, stretch_masks,
                   global_groups, totals, avg_cache, deviations>>

\* lines 229-257: the four groups, filled from `subsegments` as the loop
\* left it, and their averages
TwoMotorTotals ==
    /\ prog = "two_motor" /\ pc = "loop"
    /\ seg_id > Len(segments)
    /\ global_groups' =
           [label \in {"M3", "M4"} |->
               [state \in Range(States) |->
                   slices_of(subsegments, label, state)]]
    /\ totals' =
           [n \in 1..4 |->
               LET label == IF n <= 2 THEN "M3" ELSE "M4"
                   state == States[((n - 1) % 2) + 1]
               IN [label |-> label, state |-> state,
                   avg_map |-> avg_group(df, global_groups'[label][state])]]
    /\ pc' = "deviation"
    /\ UNCHANGED <<prog, df, columns, config_json, missing, has_timestamp,
                   config, t_sec, phase_mask,
                   raw_segments, segments, relaxed_mask, stretch_masks, seg_id,
                   printed, appended, subsegments, avg_cache, deviations>>

\* lines 262-276
TwoMotorDeviation ==
    /\ prog = "two_motor" /\ pc = "deviation"
    /\ deviations' =
           <<deviation(df, "stretched", global_groups["M3"]["stretched"],
                       global_groups["M4"]["stretched"]),
             deviation(df, "relaxed", global_groups["M3"]["relaxed"],
                       global_groups["M4"]["relaxed"])>>
    /\ pc' = "done"
    /\ UNCHANGED <<prog, df, columns, config_json, missing, has_timestamp,
                   config, t_sec, phase_mask,
                   raw_segments, segments, relaxed_mask, stretch_masks,
                   global_groups, seg_id, printed, appended, subsegments,
                   totals, avg_cache>>

\* a row of a log with the columns of motors 1, 2 (home), 3 and 4 (actuated)
Row4(t1, p1, t2, p2, t3, p3, t4, p4) ==
    [target |-> (1 :> t1 @@ 2 :> t2 @@ 3 :> t3 @@ 4 :> t4),
     pos |-> (1 :> p1 @@ 2 :> p2 @@ 3 :> p3 @@ 4 :> p4)]

\* rows: M2 away from home with M3 stretched / both relaxed /
\* M3 stretched / M4 stretched (positions on the tolerance bounds)
TwoMotorRowKinds ==
    { Row4(HOME, 2047, 0, 100, M3_STRETCHED, 2250, M4_RELAXED, 2347),
      Row4(HOME, 2049, HOME, 2046, M3_RELAXED, 1751, M4_RELAXED, 2343),
      Row4(HOME, 2052, HOME, 2040, M3_STRETCHED, 2347, M4_RELAXED, 2347),
      Row4(HOME, 2043, HOME, 2050, M3_RELAXED, 1747, M4_STRETCHED, 1747) }

\* a log is made of blocks of 1 or MIN_SEGMENT_SAMPLES equal rows
Blocks == TwoMotorRowKinds \X {1, MIN_SEGMENT_SAMPLES}

RECURSIVE Flatten(_)
Flatten(blocks) ==
    IF blocks = <<>> THEN <<>>
    ELSE [k \in 1..Head(blocks)[2] |-> Head(blocks)[1]] \o Flatten(Tail(blocks))

TwoMotorLogs ==
    {Flatten(b) : b \in UNION {[1..n -> Blocks] : n \in 0..MaxBlocks}}

InitTwoMotor ==
    /\ prog = "two_motor"
    /\ df \in TwoMotorLogs
    /\ columns = ColumnsOf({1, 2, 3, 4})
    /\ has_timestamp \in BOOLEAN
    /\ config = <<>>
    /\ InitRest

NextTwoMotor ==
    \/ TwoMotorPrepare
    \/ TwoMotorSegments
    \/ TwoMotorMasks
    \/ TwoMotorProcessSegment
    \/ TwoMotorTotals
    \/ TwoMotorDeviation

SpecTwoMotor == InitTwoMotor /\ [][NextTwoMotor]_vars

----------------------------------------------------------------------------
(* Utilities/log_calc_single.py: the single-actuator script; its constants *)
(* HOME, M3_RELAXED, M4_RELAXED, POS_TOL_RELAXED, POS_TOL_STRETCHED and    *)
(* MIN_SEGMENT_SAMPLES have the values of Utilities/log_calc.py above      *)

HOME_TOL == 5
SINGLE_M3_STRETCHED == 2147
SINGLE_M4_STRETCHED == 1947

\* phase2_mask with `& pos_home_5`, which the script computes and leaves out
single_phase2_mask_strict(d) ==
    [k \in 1..Len(d) |->
        /\ d[k].target[5] = HOME
        /\ Abs(d[k].pos[5] - HOME) <= HOME_TOL]

\* phase2_mask = target_home_5
single_phase2_mask(d) ==
    [k \in 1..Len(d) |-> d[k].target[5] = HOME]

\* relaxed_targets & relaxed_pos_ok
single_relaxed_mask(d) ==
    [k \in 1..Len(d) |->
        /\ d[k].target[3] = M3_RELAXED
        /\ d[k].target[4] = M4_RELAXED
        /\ Abs(d[k].pos[3] - M3_RELAXED) <= POS_TOL_RELAXED
        /\ Abs(d[k].pos[4] - M4_RELAXED) <= POS_TOL_RELAXED]

single_m3_stretch_mask(d) ==
    [k \in 1..Len(d) |->
        /\ d[k].target[3] = SINGLE_M3_STRETCHED
        /\ Abs(d[k].pos[3] - SINGLE_M3_STRETCHED) <= POS_TOL_STRETCHED]

single_m4_stretch_mask(d) ==
    [k \in 1..Len(d) |->
        /\ d[k].target[4] = SINGLE_M4_STRETCHED
        /\ Abs(d[k].pos[4] - SINGLE_M4_STRETCHED) <= POS_TOL_STRETCHED]

\* the filter loop and sorted(segments, key = start)
single_segments(raw) ==
    SelectSeq(raw, LAMBDA s : (s[2] - s[1] + 1) >= MIN_SEGMENT_SAMPLES)

\* the loops over m3_stretch_segments and m4_stretch_segments of one phase
\* segment: subsegments_this_seg in append order
single_subsegments(rmask, smasks, start_idx, end_idx) ==
    LET m3_stretch_local == SubSeq(smasks[3], start_idx + 1, end_idx + 1)
        m4_stretch_local == SubSeq(smasks[4], start_idx + 1, end_idx + 1)
        relaxed_local == SubSeq(rmask, start_idx + 1, end_idx + 1)
        m3_stretch_segments == find_segments(m3_stretch_local)
        m4_stretch_segments == find_segments(m4_stretch_local)
        relaxed_segments == find_segments(relaxed_local)
    IN stretch_loop("M3", start_idx, m3_stretch_segments, relaxed_segments, 1)
         \o stretch_loop("M4", start_idx, m4_stretch_segments,
                         relaxed_segments, 1)

\* all_m3_stretched.append(s) .. all_m4_relaxed.append(rslice) of one
\* iteration, in append order
single_append(groups, items) ==
    [label \in {"M3", "M4"} |->
        [state \in Range(States) |->
            groups[label][state] \o slices_of(items, label, state)]]

\* avg_group: the M5 mean of a group, or None after "no samples"
single_avg_group(d, group) ==
    IF group = <<>>
    THEN NoAverage
    ELSE [has |-> TRUE, avg |-> (5 :> mean(pd_concat(d, group), 5))]

\* the deviation of motor 5 between two groups, or "insufficient data"
single_deviation(state, avg1, avg2) ==
    IF avg1.has /\ avg2.has
    THEN [state |-> state, m1 |-> "M3", m2 |-> "M4", text |-> "dev",
          dev |-> (5 :> abs_diff(avg1.avg[5], avg2.avg[5]))]
    ELSE [state |-> state, m1 |-> "M3", m2 |-> "M4",
          text |-> "insufficient data", dev |-> <<>>]

\* lines 70-79
SinglePrepare ==
    /\ prog = "single" /\ pc = "start"
    /\ IF has_timestamp /\ Len(df) = 0
       THEN /\ pc' = "index_error"
            /\ t_sec' = t_sec
       ELSE /\ pc' = "segment"
            /\ t_sec' = elapsed_seconds(df, has_timestamp)
    /\ UNCHANGED <<prog, df, columns, config_json, missing, has_timestamp,
                   config, phase_mask, raw_segments, segments, relaxed_mask,
                   stretch_masks, global_groups, seg_id, printed, appended,
                   subsegments, totals, avg_cache, deviations>>

\* lines 84-104
SingleSegments ==
    /\ prog = "single" /\ pc = "segment"
    /\ phase_mask' = single_phase2_mask(df)
    /\ raw_segments' = find_segments(phase_mask')
    /\ segments' = single_segments(raw_segments')
    /\ pc' = IF segments' = <<>> THEN "no_segments" ELSE "masks"
    /\ UNCHANGED <<prog, df, columns, config_json, missing, has_timestamp,
                   config, t_sec, relaxed_mask, stretch_masks, global_groups,
                   seg_id, printed, appended, subsegments, totals, avg_cache,
                   deviations>>

\* lines 109-145: the masks over the whole log and the four empty groups
SingleMasks ==
    /\ prog = "single" /\ pc = "masks"
    /\ relaxed_mask' = single_relaxed_mask(df)
    /\ stretch_masks' = (3 :> single_m3_stretch_mask(df)
                         @@ 4 :> single_m4_stretch_mask(df))
    /\ global_groups' = empty_groups({"M3", "M4"})
    /\ seg_id' = 1
    /\ pc' = "loop"
    /\ UNCHANGED <<prog, df, columns, config_json, missing, has_timestamp,
                   config, t_sec, phase_mask, raw_segments, segments, printed,
                   appended, subsegments, totals, avg_cache, deviations>>

\* lines 147-203: one iteration of the loop over the phase segments
SingleProcessSegment ==
    /\ prog = "single" /\ pc = "loop"
    /\ seg_id <= Len(segments)
    /\ LET start_idx == segments[seg_id][1]
           end_idx == segments[seg_id][2]
           emitted == single_subsegments(relaxed_mask, stretch_masks,
                                         start_idx, end_idx)
       IN /\ appended' = emitted
          /\ subsegments' = sort_subsegments(t_sec, emitted)
          /\ global_groups' = single_append(global_groups, emitted)
          /\ printed' = Append(printed,
                 [seg_id |-> seg_id, start_idx |-> start_idx,
                  end_idx |-> end_idx, subsegments |-> subsegments'])
    /\ seg_id' = seg_id + 1
    /\ UNCHANGED <<prog, df, columns, config_json, missing, has_timestamp,
                   config, pc, t_sec, phase_mask, raw_segments, segments,
                   relaxed_mask, stretch_masks, totals, avg_cache, deviations>>

\* lines 208-221
SingleTotals ==
    /\ prog = "single" /\ pc = "loop"
    /\ seg_id > Len(segments)
    /\ totals' =
           [n \in 1..4 |->
               LET label == IF n <= 2 THEN "M3" ELSE "M4"
                   state == States[((n - 1) % 2) + 1]
               IN [label |-> label, state |-> state,
                   avg_map |-> single_avg_group(df, global_groups[label][state])]]
    /\ pc' = "deviation"
    /\ UNCHANGED <<prog, df, columns, config_json, missing, has_timestamp,
                   config, t_sec, phase_mask, raw_segments, segments,
                   relaxed_mask, stretch_masks, global_groups, seg_id, printed,
                   appended, subsegments, avg_cache, deviations>>

\* lines 226-239
SingleDeviation ==
    /\ prog = "single" /\ pc = "deviation"
    /\ deviations' =
           <<single_deviation("stretched", totals[1].avg_map, totals[3].avg_map),
             single_deviation("relaxed", totals[2].avg_map, totals[4].avg_map)>>
    /\ pc' = "done"
    /\ UNCHANGED <<prog, df, columns, config_json, missing, has_timestamp,
                   config, t_sec, phase_mask, raw_segments, segments,
                   relaxed_mask, stretch_masks, global_groups, seg_id, printed,
                   appended, subsegments, totals, avg_cache>>

\* a row of a log with the columns of motors 5 (home), 3 and 4 (actuated)
Row5(t5, p5, t3, p3, t4, p4) ==
    [target |-> (5 :> t5 @@ 3 :> t3 @@ 4 :> t4),
     pos |-> (5 :> p5 @@ 3 :> p3 @@ 4 :> p4)]

\* rows: M5 away from home with both relaxed / both relaxed / M3 stretched
\* with M5 off its home tolerance / M4 stretched (positions on the
\* tolerance bounds)
SingleRowKinds ==
    { Row5(0, 2047, M3_RELAXED, 1747, M4_RELAXED, 2347),
      Row5(HOME, 2049, M3_RELAXED, 1751, M4_RELAXED, 2343),
      Row5(HOME, 2060, SINGLE_M3_STRETCHED, 2247, M4_RELAXED, 2347),
      Row5(HOME, 2040, M3_RELAXED, 1747, SINGLE_M4_STRETCHED, 1847) }

\* a log is made of blocks of 1 or MIN_SEGMENT_SAMPLES equal rows
SingleBlocks == SingleRowKinds \X {1, MIN_SEGMENT_SAMPLES}

SingleLogs ==
    {Flatten(b) :
        b \in UNION {[1..n -> SingleBlocks] : n \in 0..MaxSingleBlocks}}

InitSingle ==
    /\ prog = "single"
    /\ df \in SingleLogs
    /\ columns = ColumnsOf({3, 4, 5})
    /\ has_timestamp \in BOOLEAN
    /\ config = <<>>
    /\ InitRest

NextSingle ==
    \/ SinglePrepare
    \/ SingleSegments
    \/ SingleMasks
    \/ SingleProcessSegment
    \/ SingleTotals
    \/ SingleDeviation

SpecSingle == InitSingle /\ [][NextSingle]_vars

----------------------------------------------------------------------------
(* analyze_log with several home motors, the position test of the phase    *)
(* and up to three actuated motors                                         *)

MotorM2 == MotorConfig(2, "M2", 20, 1, 0, 25)

\* rows with the columns of motors 1 to 4, for home position 20 with
\* tolerance 1 and the motors M2, M3, M4 above:
\*   all at home and relaxed, positions on the tolerance bounds /
\*   motor 2 and M3 one step outside their tolerances /
\*   motor 1 and M4 one step outside their tolerances /
\*   motor 2 sent away, M4 sent to its stretched target but still relaxed /
\*   motor 1 sent away, M3 stretched /
\*   M4 stretched / M3 stretched on its tolerance bound
WideRowKinds ==
    { Row4(20, 20, 20, 21, 10, 11, 40, 39),
      Row4(20, 19, 20, 22, 10, 12, 40, 40),
      Row4(20, 22, 20, 20, 10, 10, 40, 42),
      Row4(20, 20, 0, 20, 10, 10, 50, 40),
      Row4(0, 20, 20, 20, 30, 30, 40, 40),
      Row4(20, 20, 20, 20, 10, 10, 50, 50),
      Row4(20, 24, 20, 20, 30, 32, 40, 40) }

WideDatasets == UNION {[1..n -> WideRowKinds] : n \in 0..MaxWideLen}

WideConfigs ==
    { AnalysisConfig(20, 1, home_motor_ids, require, <<1>>, 1, motors) :
         home_motor_ids \in {<<1>>, <<1, 2>>},
         require \in BOOLEAN,
         motors \in {<<MotorM3>>, <<MotorM3, MotorM4>>,
                     <<MotorM3, MotorM4, MotorM2>>} }

InitWide ==
    /\ prog = "analyze_log"
    /\ df \in WideDatasets
    /\ columns = ColumnsOf({1, 2, 3, 4})
    /\ has_timestamp = FALSE
    /\ config \in WideConfigs
    /\ InitRest

SpecWide == InitWide /\ [][Next]_vars

----------------------------------------------------------------------------
(* analyze_log on CSV files without some of the motor columns; the values  *)
(* a row holds for a column that is not in df.columns are never read       *)

SchemaDatasets == UNION {[1..n -> RowKinds] : n \in 0..MaxSchemaLen}

SchemaColumnSets == SUBSET ColumnsOf({1, 3, 4})

SchemaConfigs ==
    { AnalysisConfig(20, 1, <<1>>, FALSE, report_motor_ids, 1, motors) :
         report_motor_ids \in {<<1>>, <<1, 4>>},
         motors \in {<<MotorM3>>, <<MotorM3, MotorM4>>} }

InitSchema ==
    /\ prog = "analyze_log"
    /\ df \in SchemaDatasets
    /\ columns \in SchemaColumnSets
    /\ has_timestamp \in BOOLEAN
    /\ config \in SchemaConfigs
    /\ InitRest

SpecSchema == InitSchema /\ [][Next]_vars

----------------------------------------------------------------------------
(* Vocabulary of the properties *)

\* the script is past the detection of the phase segments
Segmented == pc \in {"no_segments", "masks", "loop", "deviation", "done"}

IndexSet(seg) == seg[1]..seg[2]

TrueIndices(mask) == {i \in 0..(Len(mask) - 1) : mask[i + 1]}

\* the maximal runs of true samples of mask between the indices lo and hi
MaximalRuns(mask, lo, hi) ==
    {r \in (lo..hi) \X (lo..hi) :
        /\ r[1] <= r[2]
        /\ \A i \in r[1]..r[2] : mask[i + 1]
        /\ (r[1] = lo \/ ~mask[r[1]])
        /\ (r[2] = hi \/ ~mask[r[2] + 2])}

\* a is b with some elements left out
RECURSIVE IsSubList(_, _)
IsSubList(a, b) ==
    IF a = <<>> THEN TRUE
    ELSE IF b = <<>> THEN FALSE
    ELSE IF Head(a) = Head(b) THEN IsSubList(Tail(a), Tail(b))
    ELSE IsSubList(a, Tail(b))

Count(s, x) == Cardinality({i \in 1..Len(s) : s[i] = x})

----------------------------------------------------------------------------
(* Interval Extractor *)

\* C1: the intervals find_segments returns for the phase mask are pairwise
\* disjoint, in strictly ascending start order, and the union of their index
\* sets is exactly the set of indices where the mask is true.
C1_IntervalsPartitionTruePositions ==
    Segmented =>
        /\ \A a, b \in 1..Len(raw_segments) :
               a < b => /\ raw_segments[a][1] < raw_segments[b][1]
                        /\ IndexSet(raw_segments[a])
                              \cap IndexSet(raw_segments[b]) = {}
        /\ UNION {IndexSet(raw_segments[a]) : a \in 1..Len(raw_segments)}
               = TrueIndices(phase_mask)

C1_Witness ==
    /\ Segmented
    /\ Len(raw_segments) >= 2
    /\ phase_mask[Len(phase_mask)]
    /\ ~phase_mask[1]

\* C2: every interval find_segments returns is maximal: start <= end, the
\* sample before start (if any) and the sample after end (if any) are false;
\* an all-false mask gives the empty list and an all-true mask of length n
\* gives exactly [(0, n - 1)].
C2_IntervalsAreMaximal ==
    Segmented =>
        LET n == Len(phase_mask) IN
        /\ \A a \in 1..Len(raw_segments) :
               LET start == raw_segments[a][1]
                   end == raw_segments[a][2]
               IN /\ 0 <= start /\ start <= end /\ end <= n - 1
                  /\ (start > 0 => ~phase_mask[start])
                  /\ (end < n - 1 => ~phase_mask[end + 2])
        /\ \A a \in 1..(Len(raw_segments) - 1) :
               raw_segments[a][2] + 1 < raw_segments[a + 1][1]
        /\ ((\A k \in 1..n : ~phase_mask[k]) => raw_segments = <<>>)
        /\ ((n > 0 /\ \A k \in 1..n : phase_mask[k])
               => raw_segments = << <<0, n - 1>> >>)

C2_Witness ==
    /\ Segmented
    /\ Len(phase_mask) = 3
    /\ raw_segments = << <<0, 0>>, <<2, 2>> >>

----------------------------------------------------------------------------
(* Segmenter *)

\* C3: every kept phase segment has length >= min_segment_samples, every
\* maximal true run of the phase mask of at least that length is kept, the
\* kept segments are in ascending start order and the loop numbers them
\* 1, 2, ... in that order.
C3_SegmentsAreTheLongRuns ==
    Segmented =>
        /\ \A k \in 1..Len(segments) :
               segments[k][2] - segments[k][1] + 1
                   >= config.min_segment_samples
        /\ Range(segments) =
               {r \in MaximalRuns(phase_mask, 0, Len(phase_mask) - 1) :
                   r[2] - r[1] + 1 >= config.min_segment_samples}
        /\ \A a, b \in 1..Len(segments) :
               a < b => segments[a][1] < segments[b][1]
        /\ Len(printed) <= Len(segments)
        /\ \A k \in 1..Len(printed) :
               /\ printed[k].seg_id = k
               /\ <<printed[k].start_idx, printed[k].end_idx>> = segments[k]

C3_Witness ==
    /\ pc = "done"
    /\ Len(raw_segments) > Len(segments)
    /\ Len(printed) = Len(segments)
    /\ \E k \in 1..Len(segments) :
           segments[k][2] - segments[k][1] + 1 = config.min_segment_samples

\* the phase segments the same dataset gives with min_segment_samples = k
SegmentsWith(k) ==
    filter_segments(find_segments(build_phase_mask(df, config)), k)

\* C4: for the same dataset and configuration, the segments found with a
\* larger min_segment_samples are a sub-list of those found with a smaller
\* one, each with the same (start, end).
C4_SegmentationIsMonotone ==
    Segmented =>
        \A k \in 1..(MaxLen + 1) :
            /\ (k <= config.min_segment_samples
                   => IsSubList(segments, SegmentsWith(k)))
            /\ (k >= config.min_segment_samples
                   => IsSubList(SegmentsWith(k), segments))

C4_Witness ==
    /\ Segmented
    /\ \E k \in 1..MaxLen :
           /\ k < config.min_segment_samples
           /\ Len(SegmentsWith(k)) > Len(segments)
    /\ \E k \in 1..MaxLen :
           /\ k > config.min_segment_samples
           /\ Len(SegmentsWith(k)) < Len(segments)

----------------------------------------------------------------------------
(* Sub-segment Matcher *)

\* the phase segment of the last finished iteration of the loop
LastSegment == printed[Len(printed)]

\* the relaxed intervals of the phase segment seg, in absolute indices
RelaxedIntervals(seg) ==
    MaximalRuns(build_relaxed_mask(df, config.actuated_motors),
                seg.start_idx, seg.end_idx)

\* the stretched intervals of motor in the phase segment seg
StretchedIntervals(motor, seg) ==
    MaximalRuns(build_stretch_mask(df, motor), seg.start_idx, seg.end_idx)

\* C5: a "<motor> relaxed" sub-segment is appended right after the stretched
\* sub-segment of the same motor it is paired with, and it starts strictly
\* after that stretched interval's end.
C5_RelaxedStartsAfterStretchedEnd ==
    \A k \in 1..Len(appended) :
        appended[k].state = "relaxed" =>
            /\ k > 1
            /\ appended[k - 1].state = "stretched"
            /\ appended[k - 1].label = appended[k].label
            /\ appended[k].start_idx > appended[k - 1].end_idx
            /\ appended[k].start_idx > appended[k - 1].start_idx

\* a relaxed interval before the stretched one exists and is passed over
C5_Witness ==
    /\ printed # <<>>
    /\ \E k \in 2..Len(appended) :
           /\ appended[k].state = "relaxed"
           /\ \E r \in RelaxedIntervals(LastSegment) :
                  r[1] < appended[k - 1].start_idx

\* C6: in a phase segment every stretched interval of every actuated motor
\* gives exactly one stretched sub-segment and at most one relaxed one; the
\* relaxed one exists iff a relaxed interval of the segment starts after the
\* stretched end, and it is the one with the smallest start among those.
C6_OneStretchedAndFirstRelaxed ==
    printed # <<>> =>
        /\ \A m \in 1..Len(config.actuated_motors) :
               LET motor == config.actuated_motors[m]
                   S == StretchedIntervals(motor, LastSegment)
               IN /\ \A s \in S :
                         Count(appended,
                               SubSegment(motor.label, "stretched", s[1], s[2])) = 1
                  /\ \A k \in 1..Len(appended) :
                         (appended[k].label = motor.label
                             /\ appended[k].state = "stretched")
                         => <<appended[k].start_idx, appended[k].end_idx>> \in S
        /\ \A k \in 1..Len(appended) :
               appended[k].state = "stretched" =>
                   LET after == {r \in RelaxedIntervals(LastSegment) :
                                    r[1] > appended[k].end_idx}
                   IN IF after = {}
                      THEN k = Len(appended) \/ appended[k + 1].state = "stretched"
                      ELSE /\ k < Len(appended)
                           /\ appended[k + 1].state = "relaxed"
                           /\ appended[k + 1].label = appended[k].label
                           /\ <<appended[k + 1].start_idx,
                                appended[k + 1].end_idx>> \in after
                           /\ \A r \in after : appended[k + 1].start_idx <= r[1]
        /\ \A k \in 1..(Len(appended) - 1) :
               appended[k].state = "relaxed" => appended[k + 1].state = "stretched"

\* two relaxed intervals follow a stretched one; a second stretched interval
\* has none after it
C6_Witness ==
    /\ printed # <<>>
    /\ \E k \in 1..Len(appended) :
           /\ appended[k].state = "stretched"
           /\ Cardinality({r \in RelaxedIntervals(LastSegment) :
                              r[1] > appended[k].end_idx}) >= 2

\* C7: the sub-segments of a phase segment are reported in ascending order of
\* the elapsed time of their first sample, and they are the appended ones.
C7_SubsegmentsSortedByTime ==
    /\ \A k \in 1..Len(printed) :
           \A i, j \in 1..Len(printed[k].subsegments) :
               i < j => t_sec[printed[k].subsegments[i].start_idx + 1]
                           <= t_sec[printed[k].subsegments[j].start_idx + 1]
    /\ printed # <<>> =>
           /\ LastSegment.subsegments = subsegments
           /\ Len(subsegments) = Len(appended)
           /\ \A x \in Range(appended) :
                  Count(subsegments, x) = Count(appended, x)

\* the sort moved a sub-segment of the second motor in front of the first's
C7_Witness ==
    /\ printed # <<>>
    /\ Len(appended) >= 3
    /\ subsegments # appended
    /\ t_sec[subsegments[1].start_idx + 1]
           < t_sec[subsegments[Len(subsegments)].start_idx + 1]

----------------------------------------------------------------------------
(* Aggregator *)

\* the slices of the sub-segments with the label and state that were printed
\* for the phase segments from number k on
RECURSIVE ReportedSlices(_, _, _)
ReportedSlices(label, state, k) ==
    IF k > Len(printed) THEN <<>>
    ELSE slices_of(printed[k].subsegments, label, state)
            \o ReportedSlices(label, state, k + 1)

SameBag(a, b) ==
    /\ Len(a) = Len(b)
    /\ \A x \in Range(a) \cup Range(b) : Count(a, x) = Count(b, x)

Aggregated == pc \in {"deviation", "done"}

\* C8: after the loop the global group of each (motor, state) holds exactly
\* the sub-segments reported with that label and state in all phase
\* segments, and the totals and deviations are computed from them.
C8_GroupsHoldEverySubsegment ==
    Aggregated =>
        /\ Len(printed) = Len(segments)
        /\ \A m \in 1..Len(config.actuated_motors) : \A s \in 1..2 :
               LET label == config.actuated_motors[m].label
                   reported == ReportedSlices(label, States[s], 1)
               IN /\ SameBag(global_groups[label][States[s]], reported)
                  /\ totals[2 * (m - 1) + s] =
                         [label |-> label, state |-> States[s],
                          avg_map |-> average_positions(df, reported,
                                          config.report_motor_ids)]
        /\ pc = "done" =>
               \A n \in 1..Len(deviations) :
                   deviations[n].text = "dev" =>
                       \A mid \in Range(config.report_motor_ids) :
                           deviations[n].dev[mid] =
                               abs_diff(
                                   mean(pd_concat(df, ReportedSlices(
                                       deviations[n].m1, deviations[n].state, 1)), mid),
                                   mean(pd_concat(df, ReportedSlices(
                                       deviations[n].m2, deviations[n].state, 1)), mid))

C8_Witness ==
    /\ pc = "done"
    /\ Len(printed) >= 2
    /\ \A k \in 1..Len(printed) : printed[k].subsegments # <<>>
    /\ \E n \in 1..Len(deviations) : deviations[n].text = "dev"

\* C10: an empty group is reported as no samples and a deviation with an
\* empty side as insufficient data; a mean is only computed over at least one
\* row, and a deviation only when both groups are non-empty.
C10_EmptyGroupsAreReported ==
    Aggregated =>
        /\ \A n \in 1..Len(totals) :
               LET group == global_groups[totals[n].label][totals[n].state]
               IN /\ (group = <<>>) = ~totals[n].avg_map.has
                  /\ totals[n].avg_map.has =>
                         \A mid \in DOMAIN totals[n].avg_map.avg :
                             totals[n].avg_map.avg[mid].n >= 1
        /\ pc = "done" =>
               \A n \in 1..Len(deviations) :
                   deviations[n].m1 # "" =>
                       LET g1 == global_groups[deviations[n].m1][deviations[n].state]
                           g2 == global_groups[deviations[n].m2][deviations[n].state]
                       IN /\ deviations[n].text \in {"insufficient data", "dev"}
                          /\ (deviations[n].text = "insufficient data")
                                 = (g1 = <<>> \/ g2 = <<>>)
                          /\ deviations[n].text = "dev" =>
                                 \A mid \in DOMAIN deviations[n].dev :
                                     deviations[n].dev[mid].den >= 1

C10_Witness ==
    /\ pc = "done"
    /\ \E n \in 1..Len(totals) : ~totals[n].avg_map.has
    /\ \E n \in 1..Len(deviations) :
           /\ deviations[n].text = "insufficient data"
           /\ global_groups[deviations[n].m1][deviations[n].state] # <<>>
    /\ \E n \in 1..Len(deviations) : deviations[n].text = "dev"

----------------------------------------------------------------------------
(* The two-motor script's totals *)

\* C9: in the two-motor script the four global groups used for the totals
\* and the deviations hold the sub-segments reported in every detected phase
\* segment, however many phase segments there are.
C9_TwoMotorGroupsHoldEverySegment ==
    (prog = "two_motor" /\ Aggregated) =>
        \A label \in {"M3", "M4"} : \A s \in 1..2 :
            SameBag(global_groups[label][States[s]],
                    ReportedSlices(label, States[s], 1))


----------------------------------------------------------------------------
(* Phase Segmenter and Sub-state Classifier: the masks *)

HomeMotors == Range(config.home_motor_ids)

\* every home motor is commanded to the home position at Python index i
TargetsAtHome(i) ==
    \A motor_id \in HomeMotors : df[i + 1].target[motor_id] = config.home_position

\* every home motor is measured within the home tolerance at Python index i
PositionsAtHome(i) ==
    \A motor_id \in HomeMotors :
        /\ df[i + 1].pos[motor_id] - config.home_position <= config.home_tolerance
        /\ config.home_position - df[i + 1].pos[motor_id] <= config.home_tolerance

\* C11: the phase mask is true at a sample iff every home motor's target
\* equals the home position and, only when require_home_position_match is
\* set, every home motor's position is within home_tolerance of it (bound
\* included); without the flag the positions have no influence.
C11_PhaseMaskIsHomeTargetsWithOptionalTolerance ==
    Segmented =>
        /\ Len(phase_mask) = Len(df)
        /\ \A i \in 0..(Len(df) - 1) :
               phase_mask[i + 1] =
                   IF config.require_home_position_match
                   THEN TargetsAtHome(i) /\ PositionsAtHome(i)
                   ELSE TargetsAtHome(i)

\* two home motors with the flag set: a sample in the phase with a position
\* exactly home_tolerance away, and one with the targets at home left out for
\* a position home_tolerance + 1 away
C11_Witness ==
    /\ Segmented
    /\ config.require_home_position_match
    /\ Len(config.home_motor_ids) = 2
    /\ \E i \in 0..(Len(df) - 1) :
           /\ phase_mask[i + 1]
           /\ \E motor_id \in HomeMotors :
                  Abs(df[i + 1].pos[motor_id] - config.home_position)
                      = config.home_tolerance
    /\ \E i \in 0..(Len(df) - 1) :
           /\ ~phase_mask[i + 1]
           /\ TargetsAtHome(i)
           /\ \E motor_id \in HomeMotors :
                  Abs(df[i + 1].pos[motor_id] - config.home_position)
                      = config.home_tolerance + 1


\* the script is past the construction of the relaxed and stretch masks
MasksBuilt == pc \in {"loop", "deviation", "done"}

\* motor is commanded to its relaxed target and measured within its relaxed
\* tolerance of it at Python index i
MotorRelaxedAt(motor, i) ==
    /\ df[i + 1].target[motor.motor_id] = motor.relaxed_target
    /\ df[i + 1].pos[motor.motor_id] - motor.relaxed_target
           <= motor.relaxed_tolerance
    /\ motor.relaxed_target - df[i + 1].pos[motor.motor_id]
           <= motor.relaxed_tolerance

\* C12: the relaxed mask is true at a sample iff every actuated motor at once
\* has its target equal to its relaxed_target and its position within
\* relaxed_tolerance of it (bound included); one motor failing either test
\* makes the sample not relaxed for all motors.
C12_RelaxedMaskNeedsEveryMotor ==
    MasksBuilt =>
        /\ Len(relaxed_mask) = Len(df)
        /\ \A i \in 0..(Len(df) - 1) :
               relaxed_mask[i + 1] =
                   \A j \in 1..Len(config.actuated_motors) :
                       MotorRelaxedAt(config.actuated_motors[j], i)

\* three actuated motors: a relaxed sample with a position exactly
\* relaxed_tolerance away, and a sample that is not relaxed because a single
\* motor is relaxed_tolerance + 1 away while the others pass both tests
C12_Witness ==
    /\ MasksBuilt
    /\ Len(config.actuated_motors) = 3
    /\ \E i \in 0..(Len(df) - 1) :
           /\ relaxed_mask[i + 1]
           /\ \E j \in 1..Len(config.actuated_motors) :
                  LET motor == config.actuated_motors[j]
                  IN Abs(df[i + 1].pos[motor.motor_id] - motor.relaxed_target)
                         = motor.relaxed_tolerance
    /\ \E i \in 0..(Len(df) - 1) :
           /\ ~relaxed_mask[i + 1]
           /\ \E j \in 1..Len(config.actuated_motors) :
                  LET motor == config.actuated_motors[j]
                  IN /\ df[i + 1].target[motor.motor_id] = motor.relaxed_target
                     /\ Abs(df[i + 1].pos[motor.motor_id] - motor.relaxed_target)
                            = motor.relaxed_tolerance + 1
                     /\ \A k \in 1..Len(config.actuated_motors) :
                            k # j => MotorRelaxedAt(config.actuated_motors[k], i)


----------------------------------------------------------------------------
(* Empty results and schema errors *)

\* no maximal run of the phase mask of the dataset reaches
\* min_segment_samples
NoSegmentSurvives ==
    \A run \in MaximalRuns(build_phase_mask(df, config), 0, Len(df) - 1) :
        run[2] - run[1] + 1 < config.min_segment_samples

\* nothing of the analysis after the phase segmentation was built or reported
NothingAnalysed ==
    /\ relaxed_mask = <<>>
    /\ stretch_masks = <<>>
    /\ global_groups = <<>>
    /\ printed = <<>>
    /\ totals = <<>>
    /\ deviations = <<>>

\* C13: when no phase interval reaches min_segment_samples, analyze_log on a
\* dataset with all required columns ends in the "no segments detected"
\* outcome: no error is raised, no sub-segment is built, no average, no
\* deviation and no "Done." is reported, and the outcome differs from a
\* completed analysis and from a schema error.
C13_NoSegmentsEndsNormally ==
    (missing = <<>> /\ NoSegmentSurvives /\ pc \notin {"start", "segment"}) =>
        /\ pc = "no_segments"
        /\ pc \notin {"done", "key_error", "index_error"}
        /\ NothingAnalysed
        /\ ~ENABLED Next


\* the columns the configuration requires
ActuatedIds ==
    {config.actuated_motors[j].motor_id : j \in 1..Len(config.actuated_motors)}

RequiredColumns ==
    {<<kind, motor_id>> : kind \in {"target pos", "pos"},
                          motor_id \in HomeMotors \cup ActuatedIds}
    \cup {<<"pos", motor_id>> : motor_id \in Range(config.report_motor_ids)}

\* C14: if the dataset lacks a required column (target and position of every
\* home and actuated motor, position of every report motor), analyze_log
\* fails with one error naming every missing column, before the elapsed
\* time, a mask, a segment or an average exists; otherwise it raises no
\* schema error.
C14_MissingColumnsFailFirst ==
    pc # "start" =>
        IF RequiredColumns \subseteq columns
        THEN pc # "key_error" /\ missing = <<>>
        ELSE /\ pc = "key_error"
             /\ Range(missing) = RequiredColumns \ columns
             /\ Len(missing) = Cardinality(RequiredColumns \ columns)
             /\ t_sec = <<>>
             /\ phase_mask = <<>>
             /\ raw_segments = <<>>
             /\ segments = <<>>
             /\ NothingAnalysed
             /\ ~ENABLED Next

\* the error names three or more missing columns, a target and a position
\* column among them, and one that only the report needs
C14_Witness ==
    /\ pc = "key_error"
    /\ Len(missing) >= 3
    /\ \E k \in 1..Len(missing) : missing[k][1] = "target pos"
    /\ \E k \in 1..Len(missing) :
           /\ missing[k][1] = "pos"
           /\ missing[k][2] \notin HomeMotors \cup ActuatedIds


----------------------------------------------------------------------------
(* Deviation report *)

\* the deviation lines that name a pair of motors
DeviationEntries == SelectSeq(deviations, LAMBDA e : e.m1 # "")

\* sum and number of the positions of motor_id over the rows of a group
PosSum(slices, motor_id) ==
    SumSeq([k \in 1..Len(slices) |->
               SumSeq([i \in 1..(slices[k][2] - slices[k][1] + 1) |->
                          df[slices[k][1] + i].pos[motor_id]])])

PosCount(slices) ==
    SumSeq([k \in 1..Len(slices) |-> slices[k][2] - slices[k][1] + 1])

\* C15: with n actuated motors the deviation report has one entry for every
\* unordered pair of motors and each state, n(n-1) entries in all (one per
\* state for n = 2, none for n = 1); a computed entry holds, per report
\* motor, the absolute difference of the two groups' means: it is
\* non-negative and the same with the two motors exchanged (means 100 and
\* 96 give 4).
C15_DeviationsCoverEveryPair ==
    pc = "done" =>
        LET motors == config.actuated_motors
            n == Len(motors)
            entries == DeviationEntries
        IN /\ Len(entries) = n * (n - 1)
           /\ \A state \in Range(States) : \A a, b \in 1..n :
                  a < b =>
                    Cardinality({k \in 1..Len(entries) :
                        /\ entries[k].state = state
                        /\ {entries[k].m1, entries[k].m2}
                              = {motors[a].label, motors[b].label}}) = 1
           /\ \A k \in 1..Len(entries) :
                  entries[k].text = "dev" =>
                    LET e == entries[k]
                        g1 == global_groups[e.m1][e.state]
                        g2 == global_groups[e.m2][e.state]
                    IN /\ DOMAIN e.dev = Range(config.report_motor_ids)
                       /\ \A mid \in DOMAIN e.dev :
                              /\ e.dev[mid].den > 0
                              /\ e.dev[mid].num >= 0
                              /\ e.dev[mid].num * PosCount(g1) * PosCount(g2)
                                    = e.dev[mid].den
                                        * Abs(PosSum(g1, mid) * PosCount(g2)
                                              - PosSum(g2, mid) * PosCount(g1))
                              /\ e.dev[mid].num * PosCount(g2) * PosCount(g1)
                                    = e.dev[mid].den
                                        * Abs(PosSum(g2, mid) * PosCount(g1)
                                              - PosSum(g1, mid) * PosCount(g2))
           /\ abs_diff([sum |-> 100, n |-> 1], [sum |-> 96, n |-> 1])
                 = [num |-> 4, den |-> 1]
           /\ abs_diff([sum |-> 96, n |-> 1], [sum |-> 100, n |-> 1])
                 = [num |-> 4, den |-> 1]

\* three actuated motors, six entries, one of them a computed deviation of
\* exactly 4 and one without data
C15_Witness ==
    /\ pc = "done"
    /\ Len(config.actuated_motors) = 3
    /\ Len(DeviationEntries) = 6
    /\ \E k \in 1..Len(DeviationEntries) :
           /\ DeviationEntries[k].text = "dev"
           /\ DeviationEntries[k].dev[1].num = 4 * DeviationEntries[k].dev[1].den
    /\ \E k \in 1..Len(DeviationEntries) :
           DeviationEntries[k].text = "insufficient data"


----------------------------------------------------------------------------
(* Stretched intervals gate the relaxed ones *)

\* the motor has, in the printed phase segment seg, a stretched interval
\* that ends strictly before index start
StretchedBefore(motor, seg, start) ==
    \E st \in StretchedIntervals(motor, seg) : st[2] < start

\* the relaxed slices of all global groups
GlobalRelaxedSlices ==
    UNION {Range(global_groups[label]["relaxed"]) : label \in DOMAIN global_groups}

\* C16: a relaxed interval is in a motor's per-segment report and in its
\* global relaxed group only if that motor has, in the same phase segment, a
\* stretched interval ending strictly before the relaxed start; a relaxed
\* interval that follows no stretched interval of any motor is in no list
\* and no group; every stretched interval inside a phase segment is in the
\* report and in the motor's global stretched group.
C16_RelaxedOnlyAfterStretched ==
    \A k \in 1..Len(printed) :
        LET seg == printed[k]
            items == seg.subsegments
            motors == config.actuated_motors
        IN /\ \A n \in 1..Len(items) :
                  items[n].state = "relaxed" =>
                    \E j \in 1..Len(motors) :
                        /\ motors[j].label = items[n].label
                        /\ StretchedBefore(motors[j], seg, items[n].start_idx)
           /\ \A j \in 1..Len(motors) :
                  \A slice \in Range(global_groups[motors[j].label]["relaxed"]) :
                      (seg.start_idx <= slice[1] /\ slice[2] <= seg.end_idx) =>
                          /\ StretchedBefore(motors[j], seg, slice[1])
                          /\ slice \in RelaxedIntervals(seg)
           /\ \A r \in RelaxedIntervals(seg) :
                  (\A j \in 1..Len(motors) : ~StretchedBefore(motors[j], seg, r[1]))
                  => /\ \A n \in 1..Len(items) :
                            ~(items[n].state = "relaxed"
                              /\ <<items[n].start_idx, items[n].end_idx>> = r)
                     /\ r \notin GlobalRelaxedSlices
           /\ \A j \in 1..Len(motors) :
                  \A st \in StretchedIntervals(motors[j], seg) :
                      /\ \E n \in 1..Len(items) :
                             items[n] = SubSegment(motors[j].label, "stretched",
                                                   st[1], st[2])
                      /\ st \in Range(global_groups[motors[j].label]["stretched"])

\* a phase segment that begins with a relaxed interval, reported nowhere,
\* and has a later relaxed interval reported after a stretched one
C16_Witness ==
    \E k \in 1..Len(printed) :
        LET seg == printed[k]
            items == seg.subsegments
        IN /\ \E r \in RelaxedIntervals(seg) :
                  /\ r[1] = seg.start_idx
                  /\ r \notin GlobalRelaxedSlices
           /\ \E n \in 1..Len(items) :
                  /\ items[n].state = "relaxed"
                  /\ <<items[n].start_idx, items[n].end_idx>>
                        \in GlobalRelaxedSlices


----------------------------------------------------------------------------
(* Configuration invariants *)

RequiredMotorFields ==
    {"motor_id", "relaxed_target", "relaxed_tolerance", "stretched_target",
     "stretched_tolerance"}

\* the config file violates a requirement the spec lists: home_position
\* missing, home_motor_ids empty or not a list, min_segment_samples not
\* positive, actuated_motors missing or empty, an actuated entry without a
\* required field
ListedViolation(json) ==
    \/ json.home_position.type = "absent"
    \/ json.home_motor_ids.type # "list"
    \/ json.home_motor_ids.items = <<>>
    \/ /\ json.min_segment_samples.type = "number"
       /\ json.min_segment_samples.twice <= 0
    \/ json.actuated_motors.type = "absent"
    \/ /\ json.actuated_motors.type = "list"
       /\ \/ json.actuated_motors.items = <<>>
          \/ \E k \in 1..Len(json.actuated_motors.items) :
                LET entry == json.actuated_motors.items[k]
                IN /\ entry.type = "object"
                   /\ \E field \in RequiredMotorFields :
                          entry[field].type = "absent"

----------------------------------------------------------------------------
(* Independence of the phase segments *)

\* mask with every sample outside the indices lo..hi replaced by b
Outside(mask, lo, hi, b) ==
    [k \in 1..Len(mask) |->
        IF lo <= k - 1 /\ k - 1 <= hi THEN mask[k] ELSE b]

\* the sub-segments of the phase segment seg in append order, computed from
\* the mask samples of that segment alone: all other samples are set to b
SegmentAlone(seg, b) ==
    match_subsegments(config,
        Outside(relaxed_mask, seg[1], seg[2], b),
        [motor_id \in DOMAIN stretch_masks |->
            Outside(stretch_masks[motor_id], seg[1], seg[2], b)],
        seg[1], seg[2])

\* the orders in which n phase segments can be processed
Orders(n) == {order \in [1..n -> 1..n] : \A a, b \in 1..n : a # b => order[a] # order[b]}

\* the global groups after processing the segments in the given order, each
\* on its own samples
RECURSIVE GroupsInOrder(_, _, _)
GroupsInOrder(order, k, groups) ==
    IF k > Len(order) THEN groups
    ELSE GroupsInOrder(order, k + 1,
             append_groups(groups, SegmentAlone(segments[order[k]], FALSE)))

\* C18: each phase segment is analysed on its own: its sub-segment list
\* depends only on the mask samples at the indices of the segment, and
\* processing the segments in any order gives the same per-segment lists
\* and, as multisets, the same global groups.
C18_SegmentsAreIndependent ==
    /\ \A k \in 1..Len(printed) : \A b \in BOOLEAN :
           printed[k].subsegments
               = sort_subsegments(t_sec, SegmentAlone(segments[k], b))
    /\ Aggregated =>
           \A order \in Orders(Len(segments)) :
               LET groups == GroupsInOrder(order, 1, empty_groups(DOMAIN global_groups))
               IN \A label \in DOMAIN global_groups : \A state \in Range(States) :
                      SameBag(global_groups[label][state], groups[label][state])

\* two phase segments with sub-segments, a relaxed one among them, and a
\* relaxed or stretched sample between the segments
C18_Witness ==
    /\ Aggregated
    /\ Len(segments) >= 2
    /\ \A k \in 1..Len(printed) : printed[k].subsegments # <<>>
    /\ \E k \in 1..Len(printed) : \E n \in 1..Len(printed[k].subsegments) :
           printed[k].subsegments[n].state = "relaxed"
    /\ \E i \in 0..(Len(df) - 1) :
           /\ ~phase_mask[i + 1]
           /\ \/ relaxed_mask[i + 1]
              \/ \E motor_id \in DOMAIN stretch_masks : stretch_masks[motor_id][i + 1]


----------------------------------------------------------------------------
(* The single-actuator script as a configuration of the generic engine *)

\* the configuration the single-actuator script corresponds to
SingleConfig ==
    AnalysisConfig(2047, 5, <<5>>, FALSE, <<5>>, 10,
                   <<MotorConfig(3, "M3", 1747, 4, 2147, 100),
                     MotorConfig(4, "M4", 2347, 4, 1947, 100)>>)

\* what analyze_log computes for the dataset under that configuration
EngineSegments ==
    filter_segments(find_segments(build_phase_mask(df, SingleConfig)),
                    SingleConfig.min_segment_samples)

EngineEmitted(seg) ==
    match_subsegments(SingleConfig,
                      build_relaxed_mask(df, SingleConfig.actuated_motors),
                      build_stretch_masks(df, SingleConfig.actuated_motors),
                      seg[1], seg[2])

RECURSIVE EngineGroups(_)
EngineGroups(n) ==
    IF n = 0 THEN empty_groups({"M3", "M4"})
    ELSE append_groups(EngineGroups(n - 1), EngineEmitted(EngineSegments[n]))

\* C19: the single-actuator script finds the phase segments, prints per
\* segment the ordered sub-segments and fills the four global groups that
\* analyze_log computes with home_motor_ids = report_motor_ids = [5], home
\* position 2047, no home position test, min_segment_samples 10 and the
\* motors M3 (relaxed 1747 +/- 4, stretched 2147 +/- 100) and M4 (relaxed
\* 2347 +/- 4, stretched 1947 +/- 100).
C19_SingleScriptIsAnEngineInstance ==
    /\ Segmented => segments = EngineSegments
    /\ \A k \in 1..Len(printed) :
           printed[k] =
               [seg_id |-> k,
                start_idx |-> EngineSegments[k][1],
                end_idx |-> EngineSegments[k][2],
                subsegments |->
                    sort_subsegments(elapsed_seconds(df, has_timestamp),
                                     EngineEmitted(EngineSegments[k]))]
    /\ MasksBuilt => global_groups = EngineGroups(Len(printed))
    /\ Aggregated => Len(printed) = Len(EngineSegments)

\* the script has processed two phase segments, one with samples of motor 5
\* outside HOME_TOL, and filled a stretched group of each motor
C19_Witness ==
    /\ prog = "single"
    /\ Aggregated
    /\ Len(segments) >= 2
    /\ global_groups["M3"]["stretched"] # <<>>
    /\ global_groups["M4"]["stretched"] # <<>>
    /\ \E i \in 0..(Len(df) - 1) :
           /\ phase_mask[i + 1]
           /\ Abs(df[i + 1].pos[5] - HOME) > HOME_TOL


----------------------------------------------------------------------------
(* Sub-segments stay inside their phase segment *)

\* motor is commanded to its stretched target and measured within its
\* stretched tolerance of it at Python index i
MotorStretchedAt(motor, i) ==
    /\ df[i + 1].target[motor.motor_id] = motor.stretched_target
    /\ df[i + 1].pos[motor.motor_id] - motor.stretched_target
           <= motor.stretched_tolerance
    /\ motor.stretched_target - df[i + 1].pos[motor.motor_id]
           <= motor.stretched_tolerance

\* every actuated motor is relaxed at Python index i
AllRelaxedAt(i) ==
    \A j \in 1..Len(config.actuated_motors) :
        MotorRelaxedAt(config.actuated_motors[j], i)

\* the phase condition of the configuration at Python index i
InPhaseAt(i) ==
    IF config.require_home_position_match
    THEN TargetsAtHome(i) /\ PositionsAtHome(i)
    ELSE TargetsAtHome(i)

\* C20: every emitted sub-segment is non-empty and lies inside its phase
\* segment; every sample of a "<motor> stretched" sub-segment satisfies that
\* motor's stretch predicate and the phase condition, every sample of a
\* "<motor> relaxed" one the relaxed predicate and the phase condition, also
\* when the true run of the mask goes on beyond the segment boundary.
C20_SubsegmentsLieInsideTheirSegment ==
    \A k \in 1..Len(printed) :
        LET seg == printed[k]
        IN \A n \in 1..Len(seg.subsegments) :
               LET item == seg.subsegments[n]
               IN /\ item.start_idx <= item.end_idx
                  /\ seg.start_idx <= item.start_idx
                  /\ item.end_idx <= seg.end_idx
                  /\ \A i \in item.start_idx..item.end_idx :
                         /\ InPhaseAt(i)
                         /\ item.state = "relaxed" => AllRelaxedAt(i)
                         /\ item.state = "stretched" =>
                                \E j \in 1..Len(config.actuated_motors) :
                                    /\ config.actuated_motors[j].label = item.label
                                    /\ MotorStretchedAt(config.actuated_motors[j], i)

\* a relaxed sub-segment ends with its phase segment while the samples stay
\* relaxed after it, and a stretched sub-segment is reported before it
C20_Witness ==
    \E k \in 1..Len(printed) :
        LET seg == printed[k]
        IN \E n \in 1..Len(seg.subsegments) :
               LET item == seg.subsegments[n]
               IN /\ item.state = "relaxed"
                  /\ item.end_idx = seg.end_idx
                  /\ item.end_idx + 1 < Len(df)
                  /\ AllRelaxedAt(item.end_idx + 1)
                  /\ ~InPhaseAt(item.end_idx + 1)


----------------------------------------------------------------------------
(* Multiplicity of the relaxed intervals *)

\* the sequence holds no element twice
NoRepeats(s) == \A a, b \in 1..Len(s) : a # b => s[a] # s[b]

\* C21: within one phase segment a relaxed interval is emitted as
\* "<motor> relaxed" and added to that motor's global relaxed group at most
\* once per motor, so that no row is counted twice in a motor's relaxed
\* average.
C21_RelaxedIntervalOncePerMotor ==
    /\ \A k \in 1..Len(printed) :
           \A label \in DOMAIN global_groups :
               NoRepeats(slices_of(printed[k].subsegments, label, "relaxed"))
    /\ MasksBuilt =>
           \A label \in DOMAIN global_groups :
               NoRepeats(global_groups[label]["relaxed"])


----------------------------------------------------------------------------
(* analyze_log on configurations whose actuated entries share a motor_id   *)
(* or a label; load_config returns them as they are written                *)

MaxDupLen == 3       \* most rows of a log for the shared-key configurations

\* a second entry for motor 3 with another stretched target, and an entry
\* for motor 4 carrying the label of MotorM3
MotorM3Low == MotorConfig(3, "M3 low", 10, 1, 15, 2)
MotorM4AsM3 == MotorConfig(4, "M3", 40, 1, 50, 2)

DupDatasets == UNION {[1..n -> RowKinds] : n \in 0..MaxDupLen}

DupConfigs ==
    { AnalysisConfig(20, 1, <<1>>, FALSE, <<1>>, 1, motors) :
         motors \in {<<MotorM3, MotorM4>>, <<MotorM3, MotorM3Low>>,
                     <<MotorM3, MotorM4AsM3>>} }

InitDup ==
    /\ prog = "analyze_log"
    /\ df \in DupDatasets
    /\ columns = ColumnsOf({1, 3, 4})
    /\ has_timestamp \in BOOLEAN
    /\ config \in DupConfigs
    /\ InitRest

SpecDup == InitDup /\ [][Next]_vars

\* the stretched intervals of the entry in all processed phase segments
OwnStretchedIntervals(motor) ==
    UNION {StretchedIntervals(motor, printed[k]) : k \in 1..Len(printed)}

\* C22: for every accepted configuration the stretched sub-segments of each
\* actuated-motor entry come from that entry's own stretched_target and
\* stretched_tolerance, and the global group they are collected in holds
\* the sub-segments of that entry only, also when two entries share a
\* motor_id or a label.
C22_EachEntryHasItsOwnStretchedGroup ==
    MasksBuilt =>
        \A j \in 1..Len(config.actuated_motors) :
            LET motor == config.actuated_motors[j]
            IN /\ stretch_masks[motor.motor_id] = build_stretch_mask(df, motor)
               /\ Range(global_groups[motor.label]["stretched"])
                     = OwnStretchedIntervals(motor)


----------------------------------------------------------------------------
(* Sizes of the global groups *)

\* the number of sub-segments of the label and state among the items
CountOf(items, label, state) == Len(slices_of(items, label, state))

\* C23: at every point of the loop over the phase segments and at its end,
\* the global relaxed group of each actuated motor has at most as many
\* entries as its global stretched group, so a motor whose stretched total
\* is "no samples" has the relaxed total "no samples" as well.
C23_RelaxedGroupNeverLargerThanStretched ==
    /\ MasksBuilt =>
           \A label \in DOMAIN global_groups :
               Len(global_groups[label]["relaxed"])
                  <= Len(global_groups[label]["stretched"])
    /\ \A n \in 0..Len(appended) :
           \A j \in 1..Len(config.actuated_motors) :
               LET label == config.actuated_motors[j].label
                   done == SubSeq(appended, 1, n)
               IN CountOf(done, label, "relaxed")
                     <= CountOf(done, label, "stretched")
    /\ \A a, b \in 1..Len(totals) :
           /\ totals[a].label = totals[b].label
           /\ totals[a].state = "stretched"
           /\ totals[b].state = "relaxed"
           /\ totals[a].avg_map = NoAverage
           => totals[b].avg_map = NoAverage

\* the run is over, M3 has more stretched than relaxed sub-segments, one of
\* them relaxed, and M4 has none of either kind and two "no samples" totals
C23_Witness ==
    /\ pc = "done"
    /\ Len(config.actuated_motors) = 2
    /\ Len(global_groups["M3"]["relaxed"]) >= 1
    /\ Len(global_groups["M3"]["relaxed"])
          < Len(global_groups["M3"]["stretched"])
    /\ global_groups["M4"]["stretched"] = <<>>
    /\ \E a, b \in 1..Len(totals) :
           /\ totals[a].label = "M4" /\ totals[a].state = "stretched"
           /\ totals[b].label = "M4" /\ totals[b].state = "relaxed"
           /\ totals[a].avg_map = NoAverage
           /\ totals[b].avg_map = NoAverage

====
